---- MODULE Spec2Model ----
(***************************************************************************)
(* Model of buildscripts/idl/idl_check_compatibility.py: the checker that  *)
(* compares an old and a new generation of IDL commands.  The run is a     *)
(* state machine over the driver (main / check_compatibility); the checks  *)
(* it calls are operators that thread the error context.                   *)
(***************************************************************************)
EXTENDS Integers, Sequences, FiniteSets, TLC

VARIABLES old_idl, new_idl, old_error_reply, new_error_reply, old_gen_args,
          new_gen_args, pc, new_commands, old_commands, i, ctxt, printed,
          exit_code

vars == <<old_idl, new_idl, old_error_reply, new_error_reply, old_gen_args,
          new_gen_args, pc, new_commands, old_commands, i, ctxt, printed,
          exit_code>>

inputs == <<old_idl, new_idl, old_error_reply, new_error_reply, old_gen_args,
            new_gen_args>>

\* Python's None.
None == "None"

(***************************************************************************)
(* Data model: the typed AST the schema loader hands to the checker.       *)
(***************************************************************************)
Ty(kind, name, bson, cpp, ser, deser, elem, values, fields, arms, vst) ==
    [kind |-> kind, name |-> name, bson_serialization_type |-> bson,
     cpp_type |-> cpp, serializer |-> ser, deserializer |-> deser,
     element_type |-> elem, values |-> values, fields |-> fields,
     variant_types |-> arms, variant_struct_type |-> vst]

NoneType == Ty("None", None, {}, None, None, None, None, {}, <<>>, <<>>, None)

Scalar(name, bson, cpp, ser, deser) ==
    Ty("Type", name, bson, cpp, ser, deser, None, {}, <<>>, <<>>, None)

ArrayOf(elem, name) ==
    Ty("ArrayType", name, {}, None, None, None, elem, {}, <<>>, <<>>, None)

EnumOf(name, values) ==
    Ty("Enum", name, {}, None, None, None, None, values, <<>>, <<>>, None)

StructOf(name, fields) ==
    Ty("Struct", name, {}, None, None, None, None, {}, fields, <<>>, None)

VariantOf(bson, arms, vst) ==
    Ty("VariantType", "variant", bson, None, None, None, None, {}, <<>>, arms, vst)

Field(name, type, optional, unstable, default, validator) ==
    [name |-> name, type |-> type, optional |-> optional, unstable |-> unstable,
     default |-> default, validator |-> validator]

\* A required, stable field without default or validator.
Plain(name, type) == Field(name, type, FALSE, FALSE, None, None)

\* The symbol table of the two generations: type reference -> resolved type.
\* Two references may resolve to types of the same name (the old and the
\* new definition of one type).
Symbols ==
    ("int"    :> Scalar("int", {"int"}, "std::int32_t", None, None)) @@
    ("intw"   :> Scalar("int", {"int", "long"}, "std::int32_t", None, None)) @@
    ("str"    :> Scalar("string", {"string"}, "std::string", None, None)) @@
    ("nss"    :> Scalar("namespacestring", {"string"}, "NamespaceString", "s1", "d1")) @@
    ("any1"   :> Scalar("any1", {"any"}, "c1", "s1", "d1")) @@
    ("any2"   :> Scalar("any2", {"any"}, "c2", "s1", "d1")) @@
    ("any3"   :> Scalar("any3", {"any"}, "c1", "s2", "d1")) @@
    ("any4"   :> Scalar("any4", {"any"}, "c1", "s1", "d2")) @@
    ("E1"     :> EnumOf("E", {"a"})) @@
    ("E2"     :> EnumOf("E", {"a", "b"})) @@
    ("S1"     :> StructOf("S", <<Plain("g", "int")>>)) @@
    ("S2"     :> StructOf("S", <<Plain("g", "int"), Plain("h", "int")>>)) @@
    ("SA"     :> StructOf("SA", <<Plain("g", "any1")>>)) @@
    ("S3"     :> StructOf("S", <<Plain("g", "int"),
                               Field("h", "int", FALSE, TRUE, None, None)>>)) @@
    ("arrInt" :> ArrayOf("int", "array<int>")) @@
    ("arrStr" :> ArrayOf("str", "array<string>")) @@
    ("arrArr" :> ArrayOf("arrInt", "array<array<int>>")) @@
    ("V1"     :> VariantOf({"int"}, <<"int">>, None)) @@
    ("V2"     :> VariantOf({"int", "string"}, <<"int", "str">>, None)) @@
    ("V3"     :> VariantOf({"int", "object"}, <<"int">>, "S1")) @@
    ("V4"     :> VariantOf({"int", "object"}, <<"int">>, "S2")) @@
    ("V5"     :> VariantOf({"int", "object"}, <<"int">>, "S3")) @@
    ("V6"     :> VariantOf({"int", "long", "string"}, <<"intw", "str">>, None)) @@
    ("VA"     :> VariantOf({"any"}, <<"any1">>, None))

\* A type reference that the loader cannot resolve.
Unresolved == "missing"

TypeRefs == DOMAIN Symbols \cup {Unresolved}

\* symbols.resolve_field_type: the resolved type, or None.
Resolve(ref) == IF ref \in DOMAIN Symbols THEN Symbols[ref] ELSE NoneType

get_field_type(field) == Resolve(field.type)

\* isinstance(t, syntax.Type): a scalar type or a variant type.
IsType(t) == t.kind \in {"Type", "VariantType"}

IsNone(t) == t.kind = "None"

ALLOW_ANY_TYPE_LIST ==
    { <<"cmdA">>, <<"cmdA", "-param-", "f">>, <<"cmdA", "-reply-", "f">> }

(***************************************************************************)
(* Error model: IDLCompatibilityContext / IDLCompatibilityErrorCollection. *)
(* st is "run" while the process runs, "exit" after sys.exit(1) on the     *)
(* fatal path, "crash" after an uncaught Python exception.                 *)
(***************************************************************************)
NewContext == [errors |-> <<>>, st |-> "run"]

Err(kind, cmd, field) == [kind |-> kind, cmd |-> cmd, field |-> field]

Add(c, kind, cmd, field) ==
    IF c.st # "run" THEN c
    ELSE [c EXCEPT !.errors = Append(@, Err(kind, cmd, field))]

\* add the invalid-type error, dump_errors(), sys.exit(1)
Fatal(c, kind, cmd, field) ==
    IF c.st # "run" THEN c
    ELSE [errors |-> Append(c.errors, Err(kind, cmd, field)), st |-> "exit"]

\* an uncaught AttributeError / TypeError
Crash(c) == IF c.st # "run" THEN c ELSE [c EXCEPT !.st = "crash"]

\* mutant: the unstable flag of the field is not carried along
FieldCompatibilityStable(field_type, unstable) ==
    [field_type |-> field_type, unstable |-> FALSE]

FieldCompatibility(field_type, unstable) ==
    [field_type |-> field_type, unstable |-> unstable]

FieldCompatibilityPair(old, new, cmd_name, field_name) ==
    [old |-> old, new |-> new, cmd_name |-> cmd_name, field_name |-> field_name]

(***************************************************************************)
(* Type compatibility engine and struct-field reconciliation.              *)
(***************************************************************************)
RECURSIVE check_reply_field_type(_, _)
RECURSIVE check_reply_field_type_recursive(_, _)
RECURSIVE reply_variant_types_loop(_, _, _, _)
RECURSIVE check_reply_field(_, _, _, _)
RECURSIVE check_reply_fields(_, _, _, _)
RECURSIVE reply_old_fields_loop(_, _, _, _, _)
RECURSIVE reply_new_fields_loop(_, _, _, _, _)
RECURSIVE check_param_or_command_type(_, _, _)
RECURSIVE check_param_or_command_type_recursive(_, _, _)
RECURSIVE param_variant_types_loop(_, _, _, _, _)
RECURSIVE check_command_param_or_type_struct_field(_, _, _, _, _)
RECURSIVE check_command_params_or_type_struct_fields(_, _, _, _, _)
RECURSIVE param_old_fields_loop(_, _, _, _, _, _)
RECURSIVE param_new_fields_loop(_, _, _, _, _, _)

\* if cond: ctxt.add_..._error(...)
AddIf(c, cond, kind, cmd, field) == IF cond THEN Add(c, kind, cmd, field) ELSE c

\* index of the first element of seq (a sequence of records with a name)
\* whose name is n, or 0: the inner "for ... if name == ...: break" loops
FirstNamed(seq, n) ==
    IF \E k \in 1..Len(seq) : seq[k].name = n
    THEN CHOOSE k \in 1..Len(seq) :
             /\ seq[k].name = n
             /\ \A j \in 1..(k - 1) : seq[j].name # n
    ELSE 0

\* the resolved types of a sequence of type references
ResolveAll(refs) == [k \in 1..Len(refs) |-> Resolve(refs[k])]

\* set(sub_list).issubset(super_list)
\* mutant: a proper subset is asked for
issubsetProper(sub_list, super_list) ==
    sub_list \subseteq super_list /\ sub_list # super_list

issubset(sub_list, super_list) == sub_list \subseteq super_list

\* mutant: the two lists are taken the other way round
check_subsetSwapped(c, cmd_name, field_name, sub_list, super_list) ==
    AddIf(c, ~issubset(super_list, sub_list),
          "reply_field_not_subset", cmd_name, field_name)

check_subset(c, cmd_name, field_name, sub_list, super_list) ==
    AddIf(c, ~issubset(sub_list, super_list),
          "reply_field_not_subset", cmd_name, field_name)

check_superset(c, cmd_name, super_list, sub_list, param_name) ==
    AddIf(c, ~issubset(sub_list, super_list),
          "command_or_param_type_not_superset", cmd_name, param_name)

\* exactly one of the two types is an array
ArrayMismatch(old_type, new_type) ==
    (old_type.kind = "ArrayType") # (new_type.kind = "ArrayType")

\* [ctxt, result]: result is "TRUE", "FALSE" or "INVALID"
check_array_type(c, old_type, new_type, cmd_name, symbol_name, old_field_unstable) ==
    LET old_is_array == old_type.kind = "ArrayType"
        new_is_array == new_type.kind = "ArrayType"
    IN  IF ~old_is_array /\ ~new_is_array
        THEN [ctxt |-> c, result |-> "FALSE"]
        ELSE IF (~old_is_array \/ ~new_is_array) /\ ~old_field_unstable
        THEN [ctxt |-> IF IsNone(new_type) \/ IsNone(old_type)
                       THEN Crash(c)   \* None has no attribute name
                       ELSE Add(c, "type_not_array", cmd_name, symbol_name),
              result |-> "INVALID"]
        ELSE [ctxt |-> c, result |-> "TRUE"]

\* old_field.field_type = old_field.field_type.element_type, and the same
\* for new: the wrappers of the pair are rebound, the types are not touched
UnwrapArray(field_pair) ==
    [field_pair EXCEPT !.old.field_type = Resolve(@.element_type),
                       !.new.field_type = Resolve(@.element_type)]

\* mutant: "any" is seen among the types of a variant only
HasAnyVariant(t) == "any" \in t.bson_serialization_type /\ t.kind = "VariantType"

\* "any" in t.bson_serialization_type
HasAny(t) == "any" \in t.bson_serialization_type

\* cmd_name + "-reply-" + field_name, cmd_name + "-param-" + param_name,
\* or cmd_name alone (infix "")
AllowName(cmd_name, infix, field_name) ==
    IF infix = "" THEN <<cmd_name>> ELSE <<cmd_name, infix, field_name>>

\* allow_name not in ALLOW_ANY_TYPE_LIST
NotAllowed(allow_name) == allow_name \notin ALLOW_ANY_TYPE_LIST

\* isinstance(new_field_type, syntax.Type) and "any" in
\* new_field_type.bson_serialization_type, of a newly added field
NewFieldHasAny(new_field) ==
    /\ IsType(get_field_type(new_field))
    /\ HasAny(get_field_type(new_field))

(* The reply chain (Output direction). *)

\* mutant: the cpp_type is compared for a stable old field only
reply_any_identityStable(c, field_pair) ==
    LET old_field_type == field_pair.old.field_type
        new_field_type == field_pair.new.field_type
        stable == ~field_pair.old.unstable
        cmd_name == field_pair.cmd_name
        field_name == field_pair.field_name
    IN  AddIf(AddIf(AddIf(c,
                          stable /\ old_field_type.cpp_type # new_field_type.cpp_type,
                          "reply_field_cpp_type_not_equal", cmd_name, field_name),
                    stable /\ old_field_type.serializer # new_field_type.serializer,
                    "reply_field_serializer_not_equal", cmd_name, field_name),
              stable /\ old_field_type.deserializer # new_field_type.deserializer,
              "reply_field_deserializer_not_equal", cmd_name, field_name)

\* cpp_type, serializer and deserializer of an allowed "any" reply field
reply_any_identity(c, field_pair) ==
    LET old_field_type == field_pair.old.field_type
        new_field_type == field_pair.new.field_type
        stable == ~field_pair.old.unstable
        cmd_name == field_pair.cmd_name
        field_name == field_pair.field_name
    IN  AddIf(AddIf(AddIf(c,
                          old_field_type.cpp_type # new_field_type.cpp_type,
                          "reply_field_cpp_type_not_equal", cmd_name, field_name),
                    stable /\ old_field_type.serializer # new_field_type.serializer,
                    "reply_field_serializer_not_equal", cmd_name, field_name),
              stable /\ old_field_type.deserializer # new_field_type.deserializer,
              "reply_field_deserializer_not_equal", cmd_name, field_name)

\* the struct arm of the new variant against the struct arm of the old one
reply_variant_struct_type(c, field_pair) ==
    LET old_field_type == field_pair.old.field_type
        new_field_type == field_pair.new.field_type
    IN  IF new_field_type.kind = "VariantType"
           /\ new_field_type.variant_struct_type # None
        THEN IF old_field_type.variant_struct_type = None
             THEN IF ~field_pair.old.unstable
                  THEN Add(c, "new_reply_field_variant_type_not_subset",
                           field_pair.cmd_name, field_pair.field_name)
                  ELSE Crash(c)   \* check_reply_fields reads None.fields
             ELSE check_reply_fields(
                      c, Resolve(old_field_type.variant_struct_type),
                      Resolve(new_field_type.variant_struct_type),
                      field_pair.cmd_name)
        ELSE c

\* the variant check of an old variant type, else the subset check
reply_variant_or_subset(c, field_pair) ==
    LET old_field_type == field_pair.old.field_type
        new_field_type == field_pair.new.field_type
    IN  IF old_field_type.kind = "VariantType"
        THEN reply_variant_struct_type(
                 reply_variant_types_loop(
                     c, field_pair,
                     IF new_field_type.kind = "VariantType"
                     THEN ResolveAll(new_field_type.variant_types)
                     ELSE <<new_field_type>>,
                     1),
                 field_pair)
        ELSE IF field_pair.old.unstable THEN c
        ELSE IF new_field_type.kind = "VariantType"
        THEN Add(c, "new_reply_field_variant_type", field_pair.cmd_name,
                 field_pair.field_name)
        ELSE check_subset(c, field_pair.cmd_name, field_pair.field_name,
                          new_field_type.bson_serialization_type,
                          old_field_type.bson_serialization_type)

check_reply_field_type_recursive(c, field_pair) ==
    LET old_field == field_pair.old
        old_field_type == old_field.field_type
        new_field_type == field_pair.new.field_type
        cmd_name == field_pair.cmd_name
        field_name == field_pair.field_name
    IN  IF c.st # "run" THEN c
        ELSE IF ~IsType(new_field_type)
        THEN AddIf(c, ~old_field.unstable, "new_reply_field_type_enum_or_struct",
                   cmd_name, field_name)
        ELSE IF HasAny(old_field_type) /\ ~HasAny(new_field_type)
        THEN Add(c, "old_reply_field_bson_any", cmd_name, field_name)
        ELSE IF ~HasAny(old_field_type) /\ HasAny(new_field_type)
        THEN Add(c, "new_reply_field_bson_any", cmd_name, field_name)
        ELSE IF HasAny(old_field_type)
                /\ NotAllowed(AllowName(cmd_name, "-reply-", field_name))
        THEN Add(c, "reply_field_bson_any_not_allowed", cmd_name, field_name)
        ELSE reply_variant_or_subset(
                 IF HasAny(old_field_type) THEN reply_any_identity(c, field_pair)
                 ELSE c,
                 field_pair)

\* for new_variant_type in new_variant_types: ... (from the k-th on)
reply_variant_types_loop(c, field_pair, new_variant_types, k) ==
    IF c.st # "run" \/ k > Len(new_variant_types) THEN c
    ELSE LET new_variant_type == new_variant_types[k]
             old_variant_types ==
                 ResolveAll(field_pair.old.field_type.variant_types)
             m == FirstNamed(old_variant_types, new_variant_type.name)
         IN  reply_variant_types_loop(
                 IF m # 0
                 THEN check_reply_field_type(
                          c,
                          FieldCompatibilityPair(
                              FieldCompatibility(old_variant_types[m],
                                                 field_pair.old.unstable),
                              FieldCompatibility(new_variant_type,
                                                 field_pair.new.unstable),
                              field_pair.cmd_name, field_pair.field_name))
                 ELSE AddIf(c, ~field_pair.old.unstable,
                            "new_reply_field_variant_type_not_subset",
                            field_pair.cmd_name, field_pair.field_name),
                 field_pair, new_variant_types, k + 1)

\* check_reply_field_type once both types are unwrapped
reply_resolved_type(c, field_pair) ==
    LET old_field_type == field_pair.old.field_type
        new_field_type == field_pair.new.field_type
        cmd_name == field_pair.cmd_name
        field_name == field_pair.field_name
    IN  IF IsNone(old_field_type) \/ IsNone(new_field_type)
        THEN Fatal(c, "reply_field_type_invalid", cmd_name, field_name)
        ELSE IF IsType(old_field_type)
        THEN check_reply_field_type_recursive(c, field_pair)
        ELSE IF old_field_type.kind = "Enum" /\ ~field_pair.old.unstable
        THEN IF new_field_type.kind = "Enum"
             THEN check_subset(c, cmd_name, field_name, new_field_type.values,
                               old_field_type.values)
             ELSE Add(c, "new_reply_field_type_not_enum", cmd_name, field_name)
        ELSE IF old_field_type.kind = "Struct"
        THEN IF new_field_type.kind = "Struct"
             THEN check_reply_fields(c, old_field_type, new_field_type, cmd_name)
             ELSE AddIf(c, ~field_pair.old.unstable,
                        "new_reply_field_type_not_struct", cmd_name, field_name)
        ELSE c

\* check_reply_field_type after check_array_type answered ac
reply_after_array_check(ac, field_pair) ==
    IF ac.ctxt.st # "run" \/ ac.result = "INVALID" THEN ac.ctxt
    ELSE IF ac.result = "FALSE" THEN reply_resolved_type(ac.ctxt, field_pair)
    ELSE IF ArrayMismatch(field_pair.old.field_type, field_pair.new.field_type)
    THEN Crash(ac.ctxt)   \* the type that is no array has no element_type
    ELSE reply_resolved_type(ac.ctxt, UnwrapArray(field_pair))

check_reply_field_type(c, field_pair) ==
    IF c.st # "run" THEN c
    ELSE reply_after_array_check(
             check_array_type(c, field_pair.old.field_type,
                              field_pair.new.field_type, field_pair.cmd_name,
                              "type", field_pair.old.unstable),
             field_pair)

\* mutant: a validator the old field lacks is let through
reply_validatorChanged(c, old_field, new_field, cmd_name) ==
    IF new_field.validator = None \/ old_field.validator = None THEN c
    ELSE AddIf(c, new_field.validator # old_field.validator,
               "reply_field_validators_not_equal", cmd_name, new_field.name)

\* new_field.validator against old_field.validator, for a reply field
reply_validator(c, old_field, new_field, cmd_name) ==
    IF new_field.validator = None THEN c
    ELSE IF old_field.validator = None
    THEN Add(c, "reply_field_contains_validator", cmd_name, new_field.name)
    ELSE AddIf(c, new_field.validator # old_field.validator,
               "reply_field_validators_not_equal", cmd_name, new_field.name)

\* the checks of check_reply_field on a stable old field
reply_stable_field(c, old_field, new_field, cmd_name) ==
    reply_validator(
        AddIf(AddIf(c, new_field.unstable,
                    "new_reply_field_unstable", cmd_name, new_field.name),
              new_field.optional /\ ~old_field.optional,
              "new_reply_field_optional", cmd_name, new_field.name),
        old_field, new_field, cmd_name)

check_reply_field(c, old_field, new_field, cmd_name) ==
    IF c.st # "run" THEN c
    ELSE check_reply_field_type(
             IF ~old_field.unstable
             THEN reply_stable_field(c, old_field, new_field, cmd_name)
             ELSE c,
             FieldCompatibilityPair(
                 FieldCompatibility(get_field_type(old_field), old_field.unstable),
                 FieldCompatibility(get_field_type(new_field), new_field.unstable),
                 cmd_name, old_field.name))

\* mutant: a removed field is reported whatever its stability
RemovedWhateverStability(old_field) == old_field.unstable \in BOOLEAN

\* not new_field_exists and not old_field.unstable, once no new field has
\* the name of the old field
RemovedStable(old_field) == ~old_field.unstable

\* the first loop of check_reply_fields, from the k-th old field on
reply_old_fields_loop(c, old_fields, new_fields, cmd_name, k) ==
    IF c.st # "run" \/ k > Len(old_fields) THEN c
    ELSE LET old_field == old_fields[k]
             m == FirstNamed(new_fields, old_field.name)
         IN  reply_old_fields_loop(
                 IF m # 0
                 THEN check_reply_field(c, old_field, new_fields[m], cmd_name)
                 ELSE AddIf(c, RemovedStable(old_field), "new_reply_field_missing",
                            cmd_name, old_field.name),
                 old_fields, new_fields, cmd_name, k + 1)

\* the second loop of check_reply_fields: the newly added fields
reply_new_fields_loop(c, old_fields, new_fields, cmd_name, k) ==
    IF c.st # "run" \/ k > Len(new_fields) THEN c
    ELSE LET new_field == new_fields[k]
             newly_added == FirstNamed(old_fields, new_field.name) = 0
         IN  reply_new_fields_loop(
                 AddIf(c,
                       /\ newly_added
                       /\ NewFieldHasAny(new_field)
                       /\ NotAllowed(AllowName(cmd_name, "-reply-", new_field.name)),
                       "reply_field_bson_any_not_allowed", cmd_name, new_field.name),
                 old_fields, new_fields, cmd_name, k + 1)

check_reply_fields(c, old_reply, new_reply, cmd_name) ==
    reply_new_fields_loop(
        reply_old_fields_loop(c, old_reply.fields, new_reply.fields, cmd_name, 1),
        old_reply.fields, new_reply.fields, cmd_name, 1)

(* The command-parameter and command-type chain (Input direction). *)

\* cpp_type, serializer and deserializer of an allowed "any" type
param_any_identity(c, field_pair) ==
    LET old_type == field_pair.old.field_type
        new_type == field_pair.new.field_type
        stable == ~field_pair.old.unstable
        cmd_name == field_pair.cmd_name
        param_name == field_pair.field_name
    IN  AddIf(AddIf(AddIf(c,
                          old_type.cpp_type # new_type.cpp_type,
                          "command_or_param_cpp_type_not_equal", cmd_name,
                          param_name),
                    stable /\ old_type.serializer # new_type.serializer,
                    "command_or_param_serializer_not_equal", cmd_name, param_name),
              stable /\ old_type.deserializer # new_type.deserializer,
              "command_or_param_deserializer_not_equal", cmd_name, param_name)

\* mutant: a struct arm that the new variant lacks goes unreported
param_variant_struct_typeSilent(c, field_pair, is_command_parameter) ==
    LET old_type == field_pair.old.field_type
        new_type == field_pair.new.field_type
    IN  IF old_type.variant_struct_type = None
           \/ new_type.variant_struct_type = None
        THEN c
        ELSE check_command_params_or_type_struct_fields(
                 c, Resolve(old_type.variant_struct_type),
                 Resolve(new_type.variant_struct_type), field_pair.cmd_name,
                 is_command_parameter)

\* the struct arm of the old variant against the struct arm of the new one
param_variant_struct_type(c, field_pair, is_command_parameter) ==
    LET old_type == field_pair.old.field_type
        new_type == field_pair.new.field_type
    IN  IF old_type.variant_struct_type = None THEN c
        ELSE IF new_type.variant_struct_type # None
        THEN check_command_params_or_type_struct_fields(
                 c, Resolve(old_type.variant_struct_type),
                 Resolve(new_type.variant_struct_type), field_pair.cmd_name,
                 is_command_parameter)
        ELSE AddIf(c, ~field_pair.old.unstable,
                   "new_command_or_param_variant_type_not_superset",
                   field_pair.cmd_name, field_pair.field_name)

\* the variant check of an old variant type, else the superset check
param_variant_or_superset(c, field_pair, is_command_parameter) ==
    LET old_type == field_pair.old.field_type
        new_type == field_pair.new.field_type
    IN  IF old_type.kind = "VariantType"
        THEN IF new_type.kind # "VariantType"
             THEN AddIf(c, ~field_pair.old.unstable,
                        "new_command_or_param_type_not_variant_type",
                        field_pair.cmd_name, field_pair.field_name)
             ELSE param_variant_struct_type(
                      param_variant_types_loop(c, field_pair, is_command_parameter,
                                               old_type.variant_types, 1),
                      field_pair, is_command_parameter)
        ELSE IF field_pair.old.unstable THEN c
        ELSE check_superset(c, field_pair.cmd_name,
                            new_type.bson_serialization_type,
                            old_type.bson_serialization_type,
                            field_pair.field_name)

check_param_or_command_type_recursive(c, field_pair, is_command_parameter) ==
    LET old_field == field_pair.old
        old_type == old_field.field_type
        new_type == field_pair.new.field_type
        cmd_name == field_pair.cmd_name
        param_name == field_pair.field_name
        allow_name == AllowName(cmd_name,
                                IF is_command_parameter THEN "-param-" ELSE "",
                                param_name)
    IN  IF c.st # "run" THEN c
        ELSE IF ~IsType(new_type)
        THEN AddIf(c, ~old_field.unstable,
                   "new_command_or_param_type_enum_or_struct", cmd_name, param_name)
        ELSE IF HasAny(old_type) /\ ~HasAny(new_type)
        THEN Add(c, "old_command_or_param_type_bson_any", cmd_name, param_name)
        ELSE IF ~HasAny(old_type) /\ HasAny(new_type)
        THEN Add(c, "new_command_or_param_type_bson_any", cmd_name, param_name)
        ELSE IF HasAny(old_type) /\ NotAllowed(allow_name)
        THEN Add(c, "command_or_param_type_bson_any_not_allowed", cmd_name,
                 param_name)
        ELSE param_variant_or_superset(
                 IF HasAny(old_type) THEN param_any_identity(c, field_pair) ELSE c,
                 field_pair, is_command_parameter)

\* for old_variant_type in old_variant_types: ... (from the k-th on)
param_variant_types_loop(c, field_pair, is_command_parameter, old_refs, k) ==
    IF c.st # "run" \/ k > Len(old_refs) THEN c
    ELSE LET old_variant_type == Resolve(old_refs[k])
             new_variant_types ==
                 ResolveAll(field_pair.new.field_type.variant_types)
             m == FirstNamed(new_variant_types, old_variant_type.name)
         IN  param_variant_types_loop(
                 IF m # 0
                 THEN check_param_or_command_type(
                          c,
                          FieldCompatibilityPair(
                              FieldCompatibility(old_variant_type,
                                                 field_pair.old.unstable),
                              FieldCompatibility(new_variant_types[m],
                                                 field_pair.new.unstable),
                              field_pair.cmd_name, field_pair.field_name),
                          is_command_parameter)
                 ELSE AddIf(c, ~field_pair.old.unstable,
                            "new_command_or_param_variant_type_not_superset",
                            field_pair.cmd_name, field_pair.field_name),
                 field_pair, is_command_parameter, old_refs, k + 1)

\* check_param_or_command_type once both types are unwrapped
param_resolved_type(c, field_pair, is_command_parameter) ==
    LET old_type == field_pair.old.field_type
        new_type == field_pair.new.field_type
        cmd_name == field_pair.cmd_name
        field_name == field_pair.field_name
    IN  IF IsNone(old_type) \/ IsNone(new_type)
        THEN Fatal(c, "command_or_param_type_invalid", cmd_name, field_name)
        ELSE IF IsType(old_type)
        THEN check_param_or_command_type_recursive(c, field_pair,
                                                   is_command_parameter)
        ELSE IF old_type.kind = "Enum" /\ ~field_pair.old.unstable
        THEN IF new_type.kind = "Enum"
             THEN check_superset(c, cmd_name, new_type.values, old_type.values,
                                 field_name)
             ELSE Add(c, "new_command_or_param_type_not_enum", cmd_name, field_name)
        ELSE IF old_type.kind = "Struct"
        THEN IF new_type.kind = "Struct"
             THEN check_command_params_or_type_struct_fields(
                      c, old_type, new_type, cmd_name, is_command_parameter)
             ELSE AddIf(c, ~field_pair.old.unstable,
                        "new_command_or_param_type_not_struct", cmd_name,
                        field_name)
        ELSE c

\* check_param_or_command_type after check_array_type answered ac
param_after_array_check(ac, field_pair, is_command_parameter) ==
    IF ac.ctxt.st # "run" \/ ac.result = "INVALID" THEN ac.ctxt
    ELSE IF ac.result = "FALSE"
    THEN param_resolved_type(ac.ctxt, field_pair, is_command_parameter)
    ELSE IF ArrayMismatch(field_pair.old.field_type, field_pair.new.field_type)
    THEN Crash(ac.ctxt)   \* the type that is no array has no element_type
    ELSE param_resolved_type(ac.ctxt, UnwrapArray(field_pair),
                             is_command_parameter)

check_param_or_command_type(c, field_pair, is_command_parameter) ==
    IF c.st # "run" THEN c
    ELSE param_after_array_check(
             check_array_type(c, field_pair.old.field_type,
                              field_pair.new.field_type, field_pair.cmd_name,
                              IF is_command_parameter THEN field_pair.field_name
                              ELSE "type",
                              field_pair.old.unstable),
             field_pair, is_command_parameter)

check_param_or_type_validator(c, old_field, new_field, cmd_name) ==
    IF new_field.validator = None THEN c
    ELSE IF old_field.validator = None
    THEN Add(c, "command_or_param_type_contains_validator", cmd_name,
             new_field.name)
    ELSE AddIf(c, new_field.validator # old_field.validator,
               "command_or_param_type_validators_not_equal", cmd_name,
               new_field.name)

\* mutant: the default value of the new field is not looked at
StableRequiredWhateverDefault(old_field, new_field) ==
    /\ old_field.unstable
    /\ ~new_field.unstable
    /\ ~new_field.optional

\* old unstable, new stable: the new field must be optional or have a default
StableRequiredNoDefault(old_field, new_field) ==
    /\ old_field.unstable
    /\ ~new_field.unstable
    /\ ~new_field.optional
    /\ new_field.default = None

\* mutant: the optionality test looks for a required field that became
\* optional
param_field_flagsLoosened(c, old_field, new_field, cmd_name) ==
    AddIf(AddIf(AddIf(c,
                      ~old_field.unstable /\ new_field.unstable,
                      "new_param_or_command_type_field_unstable", cmd_name,
                      old_field.name),
                StableRequiredNoDefault(old_field, new_field),
                "new_param_or_command_type_field_stable_required_no_default",
                cmd_name, old_field.name),
          ~old_field.optional /\ new_field.optional,
          "new_param_or_command_type_field_required", cmd_name, old_field.name)

\* the field-level checks of check_command_param_or_type_struct_field
param_field_flags(c, old_field, new_field, cmd_name) ==
    AddIf(AddIf(AddIf(c,
                      ~old_field.unstable /\ new_field.unstable,
                      "new_param_or_command_type_field_unstable", cmd_name,
                      old_field.name),
                StableRequiredNoDefault(old_field, new_field),
                "new_param_or_command_type_field_stable_required_no_default",
                cmd_name, old_field.name),
          old_field.optional /\ ~new_field.optional,
          "new_param_or_command_type_field_required", cmd_name, old_field.name)

check_command_param_or_type_struct_field(c, old_field, new_field, cmd_name, is_command_parameter) ==
    IF c.st # "run" THEN c
    ELSE check_param_or_command_type(
             IF ~old_field.unstable
             THEN check_param_or_type_validator(
                      param_field_flags(c, old_field, new_field, cmd_name),
                      old_field, new_field, cmd_name)
             ELSE param_field_flags(c, old_field, new_field, cmd_name),
             FieldCompatibilityPair(
                 FieldCompatibility(get_field_type(old_field), old_field.unstable),
                 FieldCompatibility(get_field_type(new_field), new_field.unstable),
                 cmd_name, old_field.name),
             is_command_parameter)

\* the first loop of check_command_params_or_type_struct_fields
param_old_fields_loop(c, old_fields, new_fields, cmd_name, is_command_parameter, k) ==
    IF c.st # "run" \/ k > Len(old_fields) THEN c
    ELSE LET old_field == old_fields[k]
             m == FirstNamed(new_fields, old_field.name)
         IN  param_old_fields_loop(
                 IF m # 0
                 THEN check_command_param_or_type_struct_field(
                          c, old_field, new_fields[m], cmd_name,
                          is_command_parameter)
                 ELSE AddIf(c, RemovedStable(old_field),
                            "new_param_or_command_type_field_missing", cmd_name,
                            old_field.name),
                 old_fields, new_fields, cmd_name, is_command_parameter, k + 1)

\* mutant: an unstable newly added field counts as well
AddedRequiredOrUnstable(newly_added, new_field) == newly_added /\ ~new_field.optional

\* newly_added and not new_field.optional and not new_field.unstable
AddedRequired(newly_added, new_field) ==
    newly_added /\ ~new_field.optional /\ ~new_field.unstable

\* the second loop: the newly added fields
param_new_fields_loop(c, old_fields, new_fields, cmd_name, is_command_parameter, k) ==
    IF c.st # "run" \/ k > Len(new_fields) THEN c
    ELSE LET new_field == new_fields[k]
             newly_added == FirstNamed(old_fields, new_field.name) = 0
             allow_name == AllowName(cmd_name,
                                     IF is_command_parameter THEN "-param-" ELSE "",
                                     new_field.name)
         IN  param_new_fields_loop(
                 AddIf(AddIf(c,
                             AddedRequired(newly_added, new_field),
                             "new_param_or_command_type_field_added_required",
                             cmd_name, new_field.name),
                       /\ newly_added
                       /\ NewFieldHasAny(new_field)
                       /\ NotAllowed(allow_name),
                       "command_or_param_type_bson_any_not_allowed", cmd_name,
                       new_field.name),
                 old_fields, new_fields, cmd_name, is_command_parameter, k + 1)

check_command_params_or_type_struct_fields(c, old_struct, new_struct, cmd_name, is_command_parameter) ==
    param_new_fields_loop(
        param_old_fields_loop(c, old_struct.fields, new_struct.fields, cmd_name,
                              is_command_parameter, 1),
        old_struct.fields, new_struct.fields, cmd_name, is_command_parameter, 1)

(***************************************************************************)
(* Command reconciliation: namespace and access checks.                    *)
(***************************************************************************)
COMMAND_NAMESPACE_IGNORED == "ignored"
COMMAND_NAMESPACE_CONCATENATE_WITH_DB == "concatenate_with_db"
COMMAND_NAMESPACE_CONCATENATE_WITH_DB_OR_UUID == "concatenate_with_db_or_uuid"
COMMAND_NAMESPACE_TYPE == "type"

NamespaceKinds ==
    {COMMAND_NAMESPACE_IGNORED, COMMAND_NAMESPACE_CONCATENATE_WITH_DB,
     COMMAND_NAMESPACE_CONCATENATE_WITH_DB_OR_UUID, COMMAND_NAMESPACE_TYPE}

Command(name, api_version, imported, strict, namespace, type, fields, reply_fields, access_check) ==
    [command_name |-> name, api_version |-> api_version, imported |-> imported,
     strict |-> strict, namespace |-> namespace, type |-> type, fields |-> fields,
     reply_type |-> StructOf("Reply", reply_fields), access_check |-> access_check]

\* mutant: "concatenate_with_db_or_uuid" is treated as "concatenate_with_db"
OnlyTypeIncompatible(old_namespace, new_namespace) ==
    IF old_namespace = COMMAND_NAMESPACE_IGNORED
    THEN new_namespace # COMMAND_NAMESPACE_IGNORED
    ELSE new_namespace = COMMAND_NAMESPACE_TYPE

\* the transitions from an old namespace that is not "type" which are errors
NamespaceIncompatible(old_namespace, new_namespace) ==
    IF old_namespace = COMMAND_NAMESPACE_IGNORED
    THEN new_namespace # COMMAND_NAMESPACE_IGNORED
    ELSE IF old_namespace = COMMAND_NAMESPACE_CONCATENATE_WITH_DB_OR_UUID
    THEN new_namespace \notin {COMMAND_NAMESPACE_IGNORED,
                               COMMAND_NAMESPACE_CONCATENATE_WITH_DB_OR_UUID}
    ELSE new_namespace = COMMAND_NAMESPACE_TYPE

\* mutant: the test of the type name is inverted
IsNamespaceString(old_type) == old_type.name = "namespacestring"

\* the namespace type of a "type" namespace is not "namespacestring":
\* then the namespace may only become "ignored"
NotNamespaceString(old_type) == old_type.name # "namespacestring"

check_namespace(c, old_cmd, new_cmd) ==
    IF c.st # "run" THEN c
    ELSE IF old_cmd.namespace \in {COMMAND_NAMESPACE_IGNORED,
                                   COMMAND_NAMESPACE_CONCATENATE_WITH_DB_OR_UUID,
                                   COMMAND_NAMESPACE_CONCATENATE_WITH_DB}
    THEN AddIf(c, NamespaceIncompatible(old_cmd.namespace, new_cmd.namespace),
               "new_namespace_incompatible", old_cmd.command_name, "")
    ELSE IF old_cmd.namespace # COMMAND_NAMESPACE_TYPE
    THEN Crash(c)   \* assert False, 'unrecognized namespace option'
    ELSE IF new_cmd.namespace = COMMAND_NAMESPACE_TYPE
    THEN check_param_or_command_type(
             c,
             FieldCompatibilityPair(
                 FieldCompatibility(get_field_type(old_cmd), FALSE),
                 FieldCompatibility(get_field_type(new_cmd), FALSE),
                 old_cmd.command_name, ""),
             FALSE)
    ELSE IF IsNone(get_field_type(old_cmd))
    THEN Crash(c)   \* None has no attribute name
    ELSE AddIf(c, /\ NotNamespaceString(get_field_type(old_cmd))
                  /\ new_cmd.namespace # COMMAND_NAMESPACE_IGNORED,
               "new_namespace_incompatible", old_cmd.command_name, "")

\* syntax.Privilege, syntax.AccessCheck, syntax.AccessChecks
Privilege(resource_pattern, action_type) ==
    [resource_pattern |-> resource_pattern, action_type |-> action_type]

NoPrivilege == Privilege(None, <<>>)

AccessCheck(check, privilege) == [check |-> check, privilege |-> privilege]

NoAccessCheck == AccessCheck(None, NoPrivilege)

\* kind "absent": the command has no access_check (None)
AccessChecks(kind, simple, complex) ==
    [kind |-> kind, simple |-> simple, complex |-> complex]

NoAccessChecks == AccessChecks("absent", NoAccessCheck, <<>>)

get_access_check_type(access_checks) == access_checks.kind

Range(seq) == {seq[k] : k \in 1..Len(seq)}

\* sorted(privileges, key=lambda x: len(x.action_type), reverse=True): stable
RECURSIVE SortedByActionCount(_)
SortedByActionCount(privileges) ==
    IF privileges = <<>> THEN <<>>
    ELSE LET most == CHOOSE k \in 1..Len(privileges) :
                         /\ \A j \in 1..Len(privileges) :
                                Len(privileges[j].action_type)
                                    <= Len(privileges[k].action_type)
                         /\ \A j \in 1..(k - 1) :
                                Len(privileges[j].action_type)
                                    < Len(privileges[k].action_type)
             rest == [j \in 1..(Len(privileges) - 1) |->
                          IF j < most THEN privileges[j] ELSE privileges[j + 1]]
         IN  <<privileges[most]>> \o SortedByActionCount(rest)

split_complex_checks(complex_checks) ==
    LET HasCheck(x) == x.check # None
        HasPrivilege(x) == x.privilege # NoPrivilege
        with_check == SelectSeq(complex_checks, HasCheck)
        with_privilege == SelectSeq(complex_checks, HasPrivilege)
    IN  [checks |-> [k \in 1..Len(with_check) |-> with_check[k].check],
         privileges |-> SortedByActionCount(
             [k \in 1..Len(with_privilege) |-> with_privilege[k].privilege])]

\* mutant: the resource pattern alone decides
PrivilegeMatchesPattern(new_privilege, old_privilege) ==
    new_privilege.resource_pattern = old_privilege.resource_pattern

\* new_privilege matches old_privilege
PrivilegeMatches(new_privilege, old_privilege) ==
    /\ new_privilege.resource_pattern = old_privilege.resource_pattern
    /\ issubset(Range(new_privilege.action_type), Range(old_privilege.action_type))

\* for new_privilege in new_privileges: ... (from the k-th on); a matched
\* old privilege is removed from the sorted copy
RECURSIVE match_privileges(_, _, _, _, _)
match_privileges(c, cmd_name, new_privileges, old_privileges, k) ==
    IF k > Len(new_privileges) THEN c
    ELSE LET new_privilege == new_privileges[k]
             fits == {m \in 1..Len(old_privileges) :
                          PrivilegeMatches(new_privilege, old_privileges[m])}
             first == CHOOSE m \in fits : \A j \in fits : m <= j
             remaining == [j \in 1..(Len(old_privileges) - 1) |->
                               IF j < first THEN old_privileges[j]
                               ELSE old_privileges[j + 1]]
         IN  IF fits = {}
             THEN match_privileges(
                      Add(c, "new_complex_privileges_not_subset", cmd_name, ""),
                      cmd_name, new_privileges, old_privileges, k + 1)
             ELSE match_privileges(c, cmd_name, new_privileges, remaining, k + 1)

\* mutant: the action types are compared only if the resource patterns agree
check_simpleElif(c, cmd_name, old_simple_check, new_simple_check) ==
    IF old_simple_check.check # new_simple_check.check
    THEN Add(c, "check_not_equal", cmd_name, "")
    ELSE IF old_simple_check.privilege = NoPrivilege
            \/ new_simple_check.privilege = NoPrivilege
    THEN c
    ELSE IF old_simple_check.privilege.resource_pattern
                # new_simple_check.privilege.resource_pattern
    THEN Add(c, "resource_pattern_not_equal", cmd_name, "")
    ELSE AddIf(c, ~issubset(Range(new_simple_check.privilege.action_type),
                            Range(old_simple_check.privilege.action_type)),
               "new_action_types_not_subset", cmd_name, "")

\* the checks of two Simple access checks
check_simple(c, cmd_name, old_simple_check, new_simple_check) ==
    LET old_privilege == old_simple_check.privilege
        new_privilege == new_simple_check.privilege
        c1 == IF old_privilege.resource_pattern # new_privilege.resource_pattern
              THEN Add(c, "resource_pattern_not_equal", cmd_name, "")
              ELSE c
        c2 == IF ~issubset(Range(new_privilege.action_type),
                           Range(old_privilege.action_type))
              THEN Add(c1, "new_action_types_not_subset", cmd_name, "")
              ELSE c1
    IN  IF old_simple_check.check # new_simple_check.check
        THEN Add(c, "check_not_equal", cmd_name, "")
        ELSE IF old_privilege # NoPrivilege /\ new_privilege # NoPrivilege
        THEN c2
        ELSE c

\* the checks of two Complex access checks
check_complex(c, cmd_name, old_complex_checks, new_complex_checks) ==
    LET old_split == split_complex_checks(old_complex_checks)
        new_split == split_complex_checks(new_complex_checks)
        c1 == IF ~issubset(Range(new_split.checks), Range(old_split.checks))
              THEN Add(c, "new_complex_checks_not_subset", cmd_name, "")
              ELSE c
    IN  IF Len(new_complex_checks) > Len(old_complex_checks)
        THEN Add(c, "new_additional_complex_access_check", cmd_name, "")
        ELSE IF Len(new_split.privileges) > Len(old_split.privileges)
        THEN Add(c1, "new_complex_privileges_not_subset", cmd_name, "")
        ELSE match_privileges(c1, cmd_name, new_split.privileges,
                              old_split.privileges, 1)

\* mutant: a Simple and a Complex access check count as of one type
AccessCheckTypeNotEqualNone(old_access_checks, new_access_checks) ==
    /\ get_access_check_type(old_access_checks) # get_access_check_type(new_access_checks)
    /\ "none" \in {get_access_check_type(old_access_checks),
                   get_access_check_type(new_access_checks)}

\* old_access_check_type != new_access_check_type
AccessCheckTypeNotEqual(old_access_checks, new_access_checks) ==
    get_access_check_type(old_access_checks) # get_access_check_type(new_access_checks)

check_security_access_checks(c, old_access_checks, new_access_checks, cmd) ==
    LET cmd_name == cmd.command_name
        old_access_check_type == get_access_check_type(old_access_checks)
        new_access_check_type == get_access_check_type(new_access_checks)
        c1 == IF old_access_check_type = "simple"
              THEN check_simple(c, cmd_name, old_access_checks.simple,
                                new_access_checks.simple)
              ELSE c
        c2 == IF old_access_check_type = "complex"
              THEN check_complex(c1, cmd_name, old_access_checks.complex,
                                 new_access_checks.complex)
              ELSE c1
    IN  IF c.st # "run" THEN c
        ELSE IF old_access_checks # NoAccessChecks /\ new_access_checks # NoAccessChecks
        THEN IF AccessCheckTypeNotEqual(old_access_checks, new_access_checks)
             THEN Add(c, "access_check_type_not_equal", cmd_name, "")
             ELSE c2
        ELSE IF new_access_checks = NoAccessChecks /\ old_access_checks # NoAccessChecks
        THEN Add(c, "removed_access_check_field", cmd_name, "")
        ELSE IF /\ old_access_checks = NoAccessChecks
                /\ new_access_checks # NoAccessChecks
                /\ cmd.api_version = "1"
        THEN Add(c, "added_access_check_field", cmd_name, "")
        ELSE c

(***************************************************************************)
(* The driver: get_new_commands, check_compatibility, check_error_reply,   *)
(* check_generic_arguments_compatibility and main.                         *)
(***************************************************************************)
\* mutant: any command of the sequence is taken for the one named n
CommandIndexAnyName(commands, n) == IF commands = <<>> THEN 0 ELSE 1

\* index of the command named n in a sequence of commands, or 0
CommandIndex(commands, n) ==
    IF \E k \in 1..Len(commands) : commands[k].command_name = n
    THEN CHOOSE k \in 1..Len(commands) : commands[k].command_name = n
    ELSE 0

\* new_cmd.api_version == "" or new_cmd.imported: the command is skipped
Skipped(cmd) == cmd.api_version = "" \/ cmd.imported

\* the loop of get_new_commands from the k-th command of the new
\* generation on; acc is [commands, ctxt]
RECURSIVE get_new_commands(_, _, _)
get_new_commands(acc, new_cmds, k) ==
    IF k > Len(new_cmds) THEN acc
    ELSE LET new_cmd == new_cmds[k]
             next ==
                 IF Skipped(new_cmd) THEN acc
                 ELSE IF new_cmd.api_version # "1"
                 THEN [acc EXCEPT !.ctxt = Add(@, "command_invalid_api_version",
                                               new_cmd.command_name, "")]
                 ELSE IF CommandIndex(acc.commands, new_cmd.command_name) # 0
                 THEN [acc EXCEPT !.ctxt = Add(@, "duplicate_command_name",
                                               new_cmd.command_name, "")]
                 ELSE [acc EXCEPT !.commands = Append(@, new_cmd)]
         IN  get_new_commands(next, new_cmds, k + 1)

\* mutant: the first command of the new generation is overlooked
CommandRemovedSkipsFirst(old_cmd, new_cmds) ==
    \A k \in 2..Len(new_cmds) : new_cmds[k].command_name # old_cmd.command_name

\* old_cmd.command_name not in new_commands
CommandRemoved(old_cmd, new_cmds) == CommandIndex(new_cmds, old_cmd.command_name) = 0

\* mutant: any change of strictness counts
StrictChanged(old_cmd, new_cmd) == old_cmd.strict # new_cmd.strict

\* not old_cmd.strict and new_cmd.strict
StrictTightened(old_cmd, new_cmd) == ~old_cmd.strict /\ new_cmd.strict

\* the checks of an old command that the new generation still has
check_command(c, old_cmd, new_cmd) ==
    LET c1 == IF StrictTightened(old_cmd, new_cmd)
              THEN Add(c, "command_strict_true", new_cmd.command_name, "")
              ELSE c
        c2 == check_command_params_or_type_struct_fields(
                  c1, old_cmd, new_cmd, old_cmd.command_name, TRUE)
        c3 == check_namespace(c2, old_cmd, new_cmd)
        c4 == check_reply_fields(c3, old_cmd.reply_type, new_cmd.reply_type,
                                 old_cmd.command_name)
    IN  check_security_access_checks(c4, old_cmd.access_check,
                                     new_cmd.access_check, old_cmd)

\* the old command is entered into old_commands
Registered(old_cmd, seen) ==
    /\ ~Skipped(old_cmd)
    /\ old_cmd.api_version = "1"
    /\ old_cmd.command_name \notin seen

\* one iteration of "for old_cmd in old_idl_file.spec.symbols.commands"
check_old_command(c, old_cmd, new_cmds, seen) ==
    IF Skipped(old_cmd) THEN c
    ELSE IF old_cmd.api_version # "1"
    THEN Add(c, "command_invalid_api_version", old_cmd.command_name, "")
    ELSE IF old_cmd.command_name \in seen
    THEN Add(c, "duplicate_command_name", old_cmd.command_name, "")
    ELSE IF CommandRemoved(old_cmd, new_cmds)
    THEN Add(c, "command_removed", old_cmd.command_name, "")
    ELSE check_command(c, old_cmd,
                       new_cmds[CommandIndex(new_cmds, old_cmd.command_name)])

\* check_error_reply, up to its dump_errors
check_error_reply(old_error_reply_struct, new_error_reply_struct) ==
    IF IsNone(old_error_reply_struct) \/ IsNone(new_error_reply_struct)
    THEN Add(NewContext, "missing_error_reply_struct", "n/a", "")
    ELSE check_reply_fields(NewContext, old_error_reply_struct,
                            new_error_reply_struct, "n/a")

\* the orders in which a Python set of names may be iterated
Orders(S) ==
    {o \in [1..Cardinality(S) -> S] : \A a, b \in 1..Cardinality(S) :
                                         a # b => o[a] # o[b]}

InitWith(in) ==
    /\ old_idl = in.old_idl
    /\ new_idl = in.new_idl
    /\ old_error_reply = in.old_error_reply
    /\ new_error_reply = in.new_error_reply
    /\ old_gen_args = in.old_gen_args
    /\ new_gen_args = in.new_gen_args
    /\ pc = "get_new_commands"
    /\ new_commands = <<>>
    /\ old_commands = {}
    /\ i = 1
    /\ ctxt = NewContext
    /\ printed = <<>>
    /\ exit_code = -1

\* mutant: the unwrapping of an array is written to the loaded field
field_after_checkUnwrapped(field) ==
    IF Resolve(field.type).kind = "ArrayType"
    THEN [field EXCEPT !.type = Resolve(@).element_type]
    ELSE field

\* a loaded field after a comparison it took part in: lines 386-387 and
\* 655-656 assign to the field_type of the FieldCompatibility objects built
\* for the pair, no attribute of the field itself is assigned
field_after_check(field) == field

\* the access-check entries after a comparison: split_complex_checks builds
\* new lists (comprehensions and sorted()), line 945 removes from those
complex_after_check(complex_checks) == complex_checks

\* a loaded command after a comparison it took part in
command_after_check(cmd) ==
    [cmd EXCEPT !.fields = [k \in DOMAIN @ |-> field_after_check(@[k])],
                !.reply_type.fields = [k \in DOMAIN @ |-> field_after_check(@[k])],
                !.access_check.complex = complex_after_check(@)]

\* the loaded commands after the comparison of the old command old_cmd
commands_after_check(cmds, old_cmd) ==
    [k \in DOMAIN cmds |->
         IF cmds[k].command_name = old_cmd.command_name
         THEN command_after_check(cmds[k]) ELSE cmds[k]]

\* a loaded error reply struct after check_error_reply
struct_after_check(struct) ==
    IF IsNone(struct) THEN struct
    ELSE [struct EXCEPT !.fields = [k \in DOMAIN @ |-> field_after_check(@[k])]]

\* check_compatibility, lines 961-964
GetNewCommands ==
    /\ pc = "get_new_commands"
    /\ \E got \in {get_new_commands([commands |-> <<>>, ctxt |-> NewContext],
                                     new_idl, 1)} :
           /\ new_commands' = got.commands
           /\ ctxt' = got.ctxt
    /\ pc' = "old_commands"
    /\ UNCHANGED <<inputs, old_commands, i, printed, exit_code>>

\* check_compatibility, lines 984-1029: the next old command
CheckOldCommand ==
    /\ pc = "old_commands"
    /\ i <= Len(old_idl)
    /\ ctxt' = check_old_command(ctxt, old_idl[i], new_commands, old_commands)
    /\ old_commands' = IF Registered(old_idl[i], old_commands)
                       THEN old_commands \cup {old_idl[i].command_name}
                       ELSE old_commands
    /\ i' = IF ctxt'.st = "run" THEN i + 1 ELSE i
    /\ pc' = IF ctxt'.st = "run" THEN pc
             ELSE IF ctxt'.st = "exit" THEN "exited" ELSE "crashed"
    /\ printed' = IF ctxt'.st = "exit" THEN printed \o ctxt'.errors ELSE printed
    /\ exit_code' = IF ctxt'.st = "run" THEN exit_code ELSE 1
    /\ old_idl' = commands_after_check(old_idl, old_idl[i])
    /\ new_idl' = commands_after_check(new_idl, old_idl[i])
    /\ new_commands' = commands_after_check(new_commands, old_idl[i])
    /\ UNCHANGED <<old_error_reply, new_error_reply, old_gen_args, new_gen_args>>

\* check_compatibility, lines 1031-1032, and main, lines 1093-1095
FinishCompatibility ==
    /\ pc = "old_commands"
    /\ i > Len(old_idl)
    /\ printed' = printed \o ctxt.errors
    /\ pc' = IF ctxt.errors # <<>> THEN "exited" ELSE "error_reply"
    /\ exit_code' = IF ctxt.errors # <<>> THEN 1 ELSE exit_code
    /\ UNCHANGED <<inputs, new_commands, old_commands, i, ctxt>>

\* check_error_reply and main, lines 1097-1101
CheckErrorReply ==
    /\ pc = "error_reply"
    /\ ctxt' = check_error_reply(old_error_reply, new_error_reply)
    /\ printed' = IF ctxt'.st = "crash" THEN printed ELSE printed \o ctxt'.errors
    /\ pc' = IF ctxt'.st = "crash" THEN "crashed"
             ELSE IF ctxt'.errors # <<>> THEN "exited" ELSE "generic_arguments"
    /\ exit_code' = IF ctxt'.st = "crash" \/ ctxt'.errors # <<>> THEN 1
                    ELSE exit_code
    /\ old_error_reply' = struct_after_check(old_error_reply)
    /\ new_error_reply' = struct_after_check(new_error_reply)
    /\ UNCHANGED <<old_idl, new_idl, old_gen_args, new_gen_args, new_commands,
                   old_commands, i>>

\* check_generic_arguments_compatibility and main, lines 1103-1108
CheckGenericArguments ==
    /\ pc = "generic_arguments"
    /\ \E args \in Orders(old_gen_args.arguments \ new_gen_args.arguments),
          fields \in Orders(old_gen_args.reply_fields \ new_gen_args.reply_fields) :
          ctxt' = [errors |->
                       [k \in 1..Len(args) |->
                            Err("generic_argument_removed", "", args[k])]
                       \o [k \in 1..Len(fields) |->
                               Err("generic_argument_removed_reply_field", "",
                                   fields[k])],
                   st |-> "run"]
    /\ pc' = "exited"
    /\ exit_code' = IF ctxt'.errors # <<>> THEN 1 ELSE 0
    /\ UNCHANGED <<inputs, new_commands, old_commands, i, printed>>

Next ==
    \/ GetNewCommands
    \/ CheckOldCommand
    \/ FinishCompatibility
    \/ CheckErrorReply
    \/ CheckGenericArguments

(***************************************************************************)
(* Inputs.                                                                 *)
(***************************************************************************)
GenArgs(arguments, reply_fields) ==
    [arguments |-> arguments, reply_fields |-> reply_fields]

Inputs(old_cmds, new_cmds, old_reply, new_reply, old_args, new_args) ==
    [old_idl |-> old_cmds, new_idl |-> new_cmds, old_error_reply |-> old_reply,
     new_error_reply |-> new_reply, old_gen_args |-> old_args,
     new_gen_args |-> new_args]

\* two generations that differ in their commands only
CommandInputs(old_cmds, new_cmds) ==
    Inputs(old_cmds, new_cmds, Resolve("S1"), Resolve("S1"),
           GenArgs({"x"}, {"y"}), GenArgs({"x"}, {"y"}))

\* "cmdA" has allow-list entries for its type, parameter f and reply field f
CommandNames == {"cmdA", "cmdB"}

\* a command whose one typed position (a parameter, a reply field or the
\* namespace type) has the given type reference
TypedCommand(name, position, ref, unstable) ==
    Command(name, "1", FALSE, FALSE,
            IF position = "namespace" THEN COMMAND_NAMESPACE_TYPE
            ELSE COMMAND_NAMESPACE_IGNORED,
            IF position = "namespace" THEN ref ELSE "str",
            IF position = "param"
            THEN <<Field("f", ref, FALSE, unstable, None, None)>> ELSE <<>>,
            IF position = "reply"
            THEN <<Field("f", ref, FALSE, unstable, None, None)>> ELSE <<>>,
            NoAccessChecks)

TypeInputs ==
    {CommandInputs(<<TypedCommand(n, p, ot, u)>>, <<TypedCommand(n, p, nt, u)>>) :
        n \in CommandNames, p \in {"param", "reply"}, ot \in TypeRefs,
        nt \in TypeRefs, u \in BOOLEAN}
    \cup
    {CommandInputs(<<TypedCommand(n, "namespace", ot, FALSE)>>,
                   <<TypedCommand(n, "namespace", nt, FALSE)>>) :
        n \in CommandNames, ot \in TypeRefs, nt \in TypeRefs}

InitType == \E in \in TypeInputs : InitWith(in)

SpecType == InitType /\ [][Next]_vars

\* the bound on the number of commands of the two generations together
MaxCmds == 3

CommandFlavors == {"stable", "strict", "imported", "noapi", "v2"}

\* a command without parameters, reply fields and access checks
FlavoredCommand(name, flavor) ==
    Command(name,
            IF flavor = "noapi" THEN "" ELSE IF flavor = "v2" THEN "2" ELSE "1",
            flavor = "imported", flavor = "strict", COMMAND_NAMESPACE_IGNORED,
            "str", <<>>, <<>>, NoAccessChecks)

FlavoredCommands ==
    {FlavoredCommand(n, f) : n \in CommandNames, f \in CommandFlavors}

InitCmds ==
    \E ol \in 0..MaxCmds :
        \E nl \in 0..(MaxCmds - ol) :
            \E o \in [1..ol -> FlavoredCommands], n \in [1..nl -> FlavoredCommands] :
                InitWith(CommandInputs(o, n))

SpecCmds == InitCmds /\ [][Next]_vars

\* a command that differs from its other generation in the namespace only
NsCommand(name, namespace, ref) ==
    Command(name, "1", FALSE, FALSE, namespace, ref, <<>>, <<>>, NoAccessChecks)

NsRefs == {"nss", "str", "int", "arrInt", Unresolved}

InitNs ==
    \E n \in CommandNames, ok \in NamespaceKinds, nk \in NamespaceKinds :
        \E ot \in NsRefs, nt \in NsRefs :
            InitWith(CommandInputs(<<NsCommand(n, ok, ot)>>, <<NsCommand(n, nk, nt)>>))

SpecNs == InitNs /\ [][Next]_vars

\* a command that differs from its other generation in the access checks only
AccessCommand(name, access_check) ==
    Command(name, "1", FALSE, FALSE, COMMAND_NAMESPACE_IGNORED, "str", <<>>, <<>>,
            access_check)

ActionTypeLists ==
    {<<"a">>, <<"a", "b">>, <<"a", "b", "c">>, <<"a", "b", "d">>, <<"b", "a">>}

SimplePrivileges ==
    {AccessChecks("simple", AccessCheck(None, Privilege(r, a)), <<>>) :
        r \in {"R", "Q"}, a \in ActionTypeLists}

SimpleChecks ==
    {AccessChecks("simple", AccessCheck(ch, NoPrivilege), <<>>) :
        ch \in {"is_x", "is_y"}}

ComplexAccessChecks ==
    {AccessChecks("complex", NoAccessCheck, cs) :
        cs \in {<<AccessCheck("is_x", NoPrivilege)>>,
                <<AccessCheck(None, Privilege("R", <<"a", "b">>))>>,
                <<AccessCheck("is_x", NoPrivilege),
                  AccessCheck(None, Privilege("R", <<"a">>))>>}}

AccessCheckInputs ==
    SimplePrivileges \cup SimpleChecks \cup ComplexAccessChecks
    \cup {NoAccessChecks, AccessChecks("none", NoAccessCheck, <<>>)}

InitAccess ==
    \E n \in CommandNames, oa \in AccessCheckInputs, na \in AccessCheckInputs :
        InitWith(CommandInputs(<<AccessCommand(n, oa)>>, <<AccessCommand(n, na)>>))

SpecAccess == InitAccess /\ [][Next]_vars

\* the fields named f of type int with every combination of flags
FlagFields ==
    {Field("f", "int", o, u, d, v) :
        o \in BOOLEAN, u \in BOOLEAN, d \in {None, "0"}, v \in {None, "v1", "v2"}}

\* a command with one parameter or one reply field
FieldCommand(name, position, field) ==
    Command(name, "1", FALSE, FALSE, COMMAND_NAMESPACE_IGNORED, "str",
            IF position = "param" THEN <<field>> ELSE <<>>,
            IF position = "reply" THEN <<field>> ELSE <<>>,
            NoAccessChecks)

InitFlags ==
    \E n \in CommandNames, p \in {"param", "reply"} :
        \E of \in FlagFields, nf \in FlagFields :
            InitWith(CommandInputs(<<FieldCommand(n, p, of)>>, <<FieldCommand(n, p, nf)>>))

SpecFlags == InitFlags /\ [][Next]_vars

\* the commands a generation compared with itself is built from
IdemCommands ==
    FlavoredCommands
    \cup {TypedCommand(n, p, t, u) :
             n \in CommandNames, p \in {"param", "reply"}, t \in TypeRefs, u \in BOOLEAN}
    \cup {NsCommand(n, k, t) : n \in CommandNames, k \in NamespaceKinds, t \in TypeRefs}
    \cup {AccessCommand(n, a) : n \in CommandNames, a \in AccessCheckInputs}
    \cup {FieldCommand(n, p, f) :
             n \in CommandNames, p \in {"param", "reply"}, f \in FlagFields}

\* the bound on the number of plain commands that follow the first command
MaxMoreCmds == 1

\* one generation G, compared with an identical copy of itself
InitIdem ==
    \E first \in IdemCommands, k \in 0..MaxMoreCmds, er \in {"S1", "SA"} :
        \E more \in [1..k -> FlavoredCommands], args \in SUBSET {"x"} :
            InitWith(Inputs(<<first>> \o more, <<first>> \o more,
                            Resolve(er), Resolve(er),
                            GenArgs(args, {"y"}), GenArgs(args, {"y"})))

SpecIdem == InitIdem /\ [][Next]_vars

\* a field of the given name on one side: not there, or there with a type
\* and flags
SiblingFields(name) ==
    {<<>>} \cup {<<Field(name, t, o, u, None, None)>> :
                    t \in {"int", "arrInt"}, o \in BOOLEAN, u \in BOOLEAN}

\* a command with the given parameters or reply fields
FieldsCommand(name, position, fields) ==
    Command(name, "1", FALSE, FALSE, COMMAND_NAMESPACE_IGNORED, "str",
            IF position = "param" THEN fields ELSE <<>>,
            IF position = "reply" THEN fields ELSE <<>>,
            NoAccessChecks)

\* fields f and g, side by side in one command or in two commands
SiblingCommands(together, position, f, g) ==
    IF together THEN <<FieldsCommand("cmdB", position, f \o g)>>
    ELSE <<FieldsCommand("cmdA", position, f), FieldsCommand("cmdB", position, g)>>

InitSiblings ==
    \E together \in BOOLEAN, p \in {"param", "reply"} :
        \E of \in SiblingFields("f"), nf \in SiblingFields("f") :
            \E og \in SiblingFields("g"), ng \in SiblingFields("g") :
                InitWith(CommandInputs(SiblingCommands(together, p, of, og),
                                       SiblingCommands(together, p, nf, ng)))

SpecSiblings == InitSiblings /\ [][Next]_vars

\* two generations that differ in a command's strictness, in the error
\* reply and in the generic arguments and generic reply fields
InitGenArgs ==
    \E o \in {<<>>, <<FlavoredCommand("cmdA", "stable")>>},
       n \in {<<>>, <<FlavoredCommand("cmdA", "stable")>>,
              <<FlavoredCommand("cmdA", "strict")>>} :
        \E oe \in {"S1", "S2"}, ne \in {"S1", "S2"} :
            \E oa \in SUBSET {"x", "z"}, na \in SUBSET {"x", "z"} :
                \E orf \in SUBSET {"y", "w"}, nrf \in SUBSET {"y", "w"} :
                    InitWith(Inputs(o, n, Resolve(oe), Resolve(ne),
                                    GenArgs(oa, orf), GenArgs(na, nrf)))

SpecGenArgs == InitGenArgs /\ [][Next]_vars

\* a new generation that gains a command of any shape, next to up to
\* MaxMoreCmds plain commands, over an old generation of at most one command
InitAdded ==
    \E added \in IdemCommands, k \in 0..MaxMoreCmds, first \in BOOLEAN :
        \E more \in [1..k -> FlavoredCommands],
           o \in {<<>>} \cup {<<FlavoredCommand(n, "stable")>> : n \in CommandNames} :
            InitWith(CommandInputs(o, IF first THEN <<added>> \o more
                                      ELSE more \o <<added>>))

SpecAdded == InitAdded /\ [][Next]_vars

\* the bound on the number of entries of a Complex access check
MaxEntries == 2

\* the entries of a Complex access check: a check string or a privilege
ComplexEntries ==
    {AccessCheck(ch, NoPrivilege) : ch \in {"is_x", "is_y"}}
    \cup {AccessCheck(None, Privilege("R", a)) :
             a \in {<<"a">>, <<"a", "b">>, <<"a", "c">>, <<"a", "b", "c">>}}
    \cup {AccessCheck(None, Privilege("Q", <<"a">>))}

\* a command present in both generations with a Complex access check of up
\* to MaxEntries entries on either side
InitComplex ==
    \E n \in CommandNames, ol \in 0..MaxEntries, nl \in 0..MaxEntries :
        \E oc \in [1..ol -> ComplexEntries], nc \in [1..nl -> ComplexEntries] :
            InitWith(CommandInputs(
                <<AccessCommand(n, AccessChecks("complex", NoAccessCheck, oc))>>,
                <<AccessCommand(n, AccessChecks("complex", NoAccessCheck, nc))>>))

SpecComplex == InitComplex /\ [][Next]_vars

\* a generation that gains a parameter or a reply field of any type and
\* flags, named f or g, next to a field h that stays or on its own
InitNewField ==
    \E n \in CommandNames, p \in {"param", "reply"}, name \in {"f", "g"} :
        \E t \in TypeRefs, o \in BOOLEAN, u \in BOOLEAN :
            \E kept \in {<<>>, <<Plain("h", "int")>>}, first \in BOOLEAN :
                InitWith(CommandInputs(
                    <<FieldsCommand(n, p, kept)>>,
                    <<FieldsCommand(n, p,
                          IF first
                          THEN <<Field(name, t, o, u, None, None)>> \o kept
                          ELSE kept \o <<Field(name, t, o, u, None, None)>>)>>))

SpecNewField == InitNewField /\ [][Next]_vars

\* the types of a field whose fields, or whose struct arm's fields, may go
RemovalRefs == {"S1", "S2", "S3", "V1", "V3", "V4", "V5", "int", "arrInt"}

\* a command that loses fields: its top-level field k, its field f, or the
\* field h of the struct (or of the variant's struct arm) that f is typed with
InitRemoved ==
    \/ \E n \in CommandNames, p \in {"param", "reply"}, u \in BOOLEAN :
           \E ot \in RemovalRefs, nt \in RemovalRefs :
               \E extra \in {<<>>} \cup {<<Field("k", "int", FALSE, ku, None, None)>> :
                                            ku \in BOOLEAN},
                  kept \in BOOLEAN :
                   InitWith(CommandInputs(
                       <<FieldsCommand(n, p, <<Field("f", ot, FALSE, u, None, None)>> \o extra)>>,
                       <<FieldsCommand(n, p, IF kept
                                             THEN <<Field("f", nt, FALSE, u, None, None)>>
                                             ELSE <<>>)>>))
    \/ \E n \in CommandNames, ot \in RemovalRefs, nt \in RemovalRefs :
           InitWith(CommandInputs(<<TypedCommand(n, "namespace", ot, FALSE)>>,
                                  <<TypedCommand(n, "namespace", nt, FALSE)>>))

SpecRemoved == InitRemoved /\ [][Next]_vars

(***************************************************************************)
(* Properties.                                                             *)
(***************************************************************************)
\* the errors of the given kinds recorded for a command
ErrorsOf(kinds, cmd) ==
    {k \in 1..Len(ctxt.errors) :
        ctxt.errors[k].kind \in kinds /\ ctxt.errors[k].cmd = cmd}

\* the errors of the given kinds recorded for a field of a command
FieldErrors(kinds, cmd, field) ==
    {k \in ErrorsOf(kinds, cmd) : ctxt.errors[k].field = field}

\* the old commands whose loop iteration has completed
Processed == IF pc = "old_commands" THEN 1..(i - 1) ELSE {}

InNewCommands(name) == CommandIndex(new_commands, name) # 0

\* C1: every processed old command of apiVersion "1" that is not imported
\* has exactly one command_removed error if its name is absent from the new
\* command map and none if it is present; the loop goes on after it.
C1_CommandRemoval ==
    \A j \in Processed :
        (old_idl[j].api_version = "1" /\ ~old_idl[j].imported)
        => Cardinality(ErrorsOf({"command_removed"}, old_idl[j].command_name))
               = IF InNewCommands(old_idl[j].command_name) THEN 0 ELSE 1

\* old {cmdA, cmdB}, new {cmdB}: both processed, one error, for cmdA
C1_Witness ==
    /\ pc = "old_commands"
    /\ i = 3
    /\ old_idl[1].command_name = "cmdA" /\ old_idl[1].api_version = "1"
    /\ ~old_idl[1].imported
    /\ old_idl[2].command_name = "cmdB" /\ old_idl[2].api_version = "1"
    /\ ~old_idl[2].imported
    /\ ~InNewCommands("cmdA") /\ InNewCommands("cmdB")
    /\ Cardinality(ErrorsOf({"command_removed"}, "cmdA")) = 1
    /\ ErrorsOf({"command_removed"}, "cmdB") = {}

\* the two generations are identical
Identical ==
    /\ old_idl = new_idl
    /\ old_error_reply = new_error_reply
    /\ old_gen_args = new_gen_args

\* every command that is compared has apiVersion "1" and a name of its own
Loadable(cmds) ==
    \A j \in 1..Len(cmds) :
        Skipped(cmds[j])
        \/ /\ cmds[j].api_version = "1"
           /\ \A k \in 1..Len(cmds) :
                  (k # j /\ ~Skipped(cmds[k]))
                  => cmds[k].command_name # cmds[j].command_name

\* the type reference and every reference below it resolve
RECURSIVE Resolves(_)
Resolves(ref) ==
    /\ ref \in DOMAIN Symbols
    /\ \A k \in 1..Len(Symbols[ref].fields) : Resolves(Symbols[ref].fields[k].type)
    /\ \A k \in 1..Len(Symbols[ref].variant_types) :
           Resolves(Symbols[ref].variant_types[k])
    /\ Symbols[ref].kind = "ArrayType" => Resolves(Symbols[ref].element_type)
    /\ Symbols[ref].variant_struct_type # None
           => Resolves(Symbols[ref].variant_struct_type)

\* no type at or below the reference carries "any" under a key that is
\* not in the registry; the key of a struct's field is made of that field's name
RECURSIVE AnyAllowed(_, _, _, _)
AnyAllowed(cmd_name, infix, field_name, ref) ==
    /\ (Symbols[ref].kind \in {"Type", "VariantType"} /\ HasAny(Symbols[ref]))
           => ~NotAllowed(AllowName(cmd_name, infix, field_name))
    /\ \A k \in 1..Len(Symbols[ref].fields) :
           AnyAllowed(cmd_name, infix, Symbols[ref].fields[k].name,
                      Symbols[ref].fields[k].type)
    /\ \A k \in 1..Len(Symbols[ref].variant_types) :
           AnyAllowed(cmd_name, infix, field_name, Symbols[ref].variant_types[k])
    /\ Symbols[ref].kind = "ArrayType"
           => AnyAllowed(cmd_name, infix, field_name, Symbols[ref].element_type)
    /\ Symbols[ref].variant_struct_type # None
           => AnyAllowed(cmd_name, infix, field_name, Symbols[ref].variant_struct_type)

\* the fields of a struct resolve and use "any" under registered keys only
FieldsClean(cmd_name, infix, fields) ==
    \A k \in 1..Len(fields) :
        /\ Resolves(fields[k].type)
        /\ AnyAllowed(cmd_name, infix, fields[k].name, fields[k].type)

CommandClean(cmd) ==
    /\ FieldsClean(cmd.command_name, "-param-", cmd.fields)
    /\ FieldsClean(cmd.command_name, "-reply-", cmd.reply_type.fields)
    /\ cmd.namespace = COMMAND_NAMESPACE_TYPE
           => /\ Resolves(cmd.type)
              /\ AnyAllowed(cmd.command_name, "", "", cmd.type)

\* a generation that loads, whose types resolve and whose "any" types are
\* all registered
Clean ==
    /\ Loadable(old_idl)
    /\ \A j \in 1..Len(old_idl) : Skipped(old_idl[j]) \/ CommandClean(old_idl[j])
    /\ FieldsClean("n/a", "-reply-", old_error_reply.fields)

\* C2 (as the code has it): comparing a generation with an identical copy
\* of itself records no error in any check, prints nothing, and exits with
\* status 0, provided the generation loads (apiVersion "1", unique names,
\* every type reference resolves) and every type carrying "any" is used
\* under a key of the registry.
C2_Idempotence ==
    (Identical /\ Clean)
    => /\ ctxt.errors = <<>>
       /\ printed = <<>>
       /\ pc # "crashed"
       /\ exit_code \in {-1, 0}

\* an identical pair with an allow-listed "any" parameter ran to the end
C2_Witness ==
    /\ Identical /\ Clean
    /\ pc = "exited" /\ exit_code = 0
    /\ \E j \in 1..Len(old_idl) :
           /\ old_idl[j].fields # <<>>
           /\ old_idl[j].fields[1].type = "any1"
           /\ ~Skipped(old_idl[j])

\* C2 as stated: comparing any generation with an identical copy of itself
\* records no error in any check.
C2_AnyGeneration == Identical => ctxt.errors = <<>>

\* the command has a parameter or reply field f that is marked unstable
UnstableF(cmd) ==
    IF cmd.fields # <<>> THEN cmd.fields[1].name = "f" /\ cmd.fields[1].unstable
    ELSE IF cmd.reply_type.fields # <<>>
    THEN cmd.reply_type.fields[1].name = "f" /\ cmd.reply_type.fields[1].unstable
    ELSE FALSE

\* the kinds of the errors recorded for some fields of a command
ErrorKinds(cmd, fields) ==
    {ctxt.errors[k].kind :
        k \in {m \in 1..Len(ctxt.errors) :
                  ctxt.errors[m].cmd = cmd /\ ctxt.errors[m].field \in fields}}

\* an array error of a reply field is recorded under the name "type"
FOrItsType == {"f", "type"}

AnyErrorKinds ==
    {"old_reply_field_bson_any", "new_reply_field_bson_any",
     "reply_field_bson_any_not_allowed", "old_command_or_param_type_bson_any",
     "new_command_or_param_type_bson_any",
     "command_or_param_type_bson_any_not_allowed"}

CppTypeErrorKinds ==
    {"reply_field_cpp_type_not_equal", "command_or_param_cpp_type_not_equal"}

TypeInvalidErrorKinds ==
    {"reply_field_type_invalid", "command_or_param_type_invalid"}

\* C3 (as the code has it): for a field whose old field is marked unstable,
\* in both directions, no error is recorded for a type-kind mismatch, an
\* array-ness mismatch or a variant-arm-set mismatch; the type errors still
\* recorded for the field are any-type introduction, any-type removal, use
\* of "any" without a registry entry, a change of the native type of an
\* any-type, and the fatal unresolved-type error.
C3_MonotonicTolerance ==
    \A j \in 1..Len(old_idl) :
        UnstableF(old_idl[j])
        => ErrorKinds(old_idl[j].command_name, FOrItsType)
               \subseteq (AnyErrorKinds \cup CppTypeErrorKinds
                          \cup TypeInvalidErrorKinds)

\* an unstable parameter that was a scalar and is an enum: no error
C3_Witness ==
    /\ pc = "old_commands" /\ i = 2
    /\ UnstableF(old_idl[1])
    /\ old_idl[1].fields # <<>>
    /\ Resolve(old_idl[1].fields[1].type).kind = "Type"
    /\ Resolve(new_idl[1].fields[1].type).kind = "Enum"
    /\ ~HasAny(Resolve(old_idl[1].fields[1].type))
    /\ ctxt.errors = <<>>

\* C3 as stated: the only type errors recorded for a field whose old field
\* is unstable are any-type introduction, removal and use without a
\* registry entry.
C3_OnlyAnyErrors ==
    \A j \in 1..Len(old_idl) :
        UnstableF(old_idl[j])
        => ErrorKinds(old_idl[j].command_name, FOrItsType) \subseteq AnyErrorKinds

\* the type reference of the one typed position of a command, the infix of
\* its registry key and the name of its field
TypedPosition(cmd) ==
    IF cmd.fields # <<>>
    THEN [ref |-> cmd.fields[1].type, infix |-> "-param-", name |-> cmd.fields[1].name]
    ELSE IF cmd.reply_type.fields # <<>>
    THEN [ref |-> cmd.reply_type.fields[1].type, infix |-> "-reply-",
          name |-> cmd.reply_type.fields[1].name]
    ELSE IF cmd.namespace = COMMAND_NAMESPACE_TYPE
    THEN [ref |-> cmd.type, infix |-> "", name |-> ""]
    ELSE [ref |-> Unresolved, infix |-> "", name |-> ""]

\* the old type of the typed position carries "any" and its key is not
\* in the registry
UnregisteredAny(cmd) ==
    /\ IsType(Resolve(TypedPosition(cmd).ref))
    /\ HasAny(Resolve(TypedPosition(cmd).ref))
    /\ NotAllowed(AllowName(cmd.command_name, TypedPosition(cmd).infix,
                            TypedPosition(cmd).name))

\* C4: a field present in both generations whose old type carries "any"
\* and whose key is not in the registry has at least one error recorded for
\* it once its command is processed, whatever the new type and whatever the
\* old field's unstable flag.
C4_AllowlistGate ==
    \A j \in Processed :
        (UnregisteredAny(old_idl[j]) /\ InNewCommands(old_idl[j].command_name))
        => ErrorKinds(old_idl[j].command_name,
                      {TypedPosition(old_idl[j]).name, "type"}) # {}

\* the command's typed position is a stable field whose old and new types
\* are both enums
StableEnumPair(old_cmd, new_cmd) ==
    /\ TypedPosition(old_cmd).infix # ""
    /\ ~UnstableF(old_cmd)
    /\ Resolve(TypedPosition(old_cmd).ref).kind = "Enum"
    /\ Resolve(TypedPosition(new_cmd).ref).kind = "Enum"

OldValues(j) == Resolve(TypedPosition(old_idl[j]).ref).values

NewValues(j) == Resolve(TypedPosition(new_idl[j]).ref).values

IsInput(j) == TypedPosition(old_idl[j]).infix = "-param-"

EnumErrors(j) == ErrorKinds(old_idl[j].command_name, {"f"})

\* C5: for a stable old field whose old and new types are both enums, equal
\* value sets record no error in either direction; a new value set that is
\* a strict superset of the old one records no error in Input direction and
\* an error in Output direction; a strict subset records no error in Output
\* direction and an error in Input direction.
C5_EnumDirections ==
    \A j \in Processed :
        StableEnumPair(old_idl[j], new_idl[j])
        => /\ OldValues(j) = NewValues(j) => EnumErrors(j) = {}
           /\ (OldValues(j) \subseteq NewValues(j) /\ OldValues(j) # NewValues(j))
                  => EnumErrors(j) = IF IsInput(j) THEN {}
                                     ELSE {"reply_field_not_subset"}
           /\ (NewValues(j) \subseteq OldValues(j) /\ OldValues(j) # NewValues(j))
                  => EnumErrors(j) = IF IsInput(j)
                                     THEN {"command_or_param_type_not_superset"}
                                     ELSE {}

\* a stable reply field whose enum gained a value: the error is recorded
C5_Witness ==
    /\ pc = "old_commands" /\ i = 2
    /\ StableEnumPair(old_idl[1], new_idl[1])
    /\ ~IsInput(1)
    /\ OldValues(1) = {"a"} /\ NewValues(1) = {"a", "b"}
    /\ EnumErrors(1) = {"reply_field_not_subset"}

\* the field f of the j-th old command and of the new command at that place
OldF(j) ==
    IF IsInput(j) THEN old_idl[j].fields[1] ELSE old_idl[j].reply_type.fields[1]

NewF(j) ==
    IF IsInput(j) THEN new_idl[j].fields[1] ELSE new_idl[j].reply_type.fields[1]

\* promoted to stable, required, and without a default value
PromotedWithoutDefault(j) ==
    /\ OldF(j).unstable /\ ~NewF(j).unstable
    /\ ~NewF(j).optional /\ NewF(j).default = None

StablePromotionKinds ==
    {"new_param_or_command_type_field_stable_required_no_default"}

\* C6 (as the code has it): in the Input direction a field present in both
\* generations records the stability-promotion error exactly if the old
\* field is unstable and the new one is stable, required and without a
\* default (so not if a default is present); in the Output direction there
\* is no such rule: a reply field whose old field is unstable records no
\* field-level error.
C6_StabilityPromotion ==
    \A j \in Processed :
        TypedPosition(old_idl[j]).infix # ""
        => IF IsInput(j)
           THEN (ErrorKinds(old_idl[j].command_name, {"f"}) \cap StablePromotionKinds
                     # {})
                <=> PromotedWithoutDefault(j)
           ELSE OldF(j).unstable => ErrorKinds(old_idl[j].command_name, {"f"}) = {}

\* a parameter promoted without a default has the error on record
C6_Witness ==
    /\ pc = "old_commands" /\ i = 2
    /\ TypedPosition(old_idl[1]).infix = "-param-"
    /\ PromotedWithoutDefault(1)
    /\ StablePromotionKinds \subseteq ErrorKinds(old_idl[1].command_name, {"f"})

\* C6 as stated: in both directions, a field promoted to stable, required
\* and without a default records an error.
C6_BothDirections ==
    \A j \in Processed :
        (TypedPosition(old_idl[j]).infix # "" /\ PromotedWithoutDefault(j))
        => ErrorKinds(old_idl[j].command_name, {"f"}) # {}

\* the access checks of the j-th old command and of its new command are
\* both Simple, with equal check strings, and both carry a privilege
SimplePrivilegePair(j) ==
    /\ get_access_check_type(old_idl[j].access_check) = "simple"
    /\ get_access_check_type(new_idl[j].access_check) = "simple"
    /\ old_idl[j].access_check.simple.check = new_idl[j].access_check.simple.check
    /\ old_idl[j].access_check.simple.privilege # NoPrivilege
    /\ new_idl[j].access_check.simple.privilege # NoPrivilege

OldPrivilege(j) == old_idl[j].access_check.simple.privilege

NewPrivilege(j) == new_idl[j].access_check.simple.privilege

AccessErrors(j) == ErrorKinds(old_idl[j].command_name, {""})

\* C7: when old and new access checks are both Simple with equal check
\* strings and both carry a privilege, a resource-pattern error is recorded
\* iff the resource patterns differ, and an action-type error is recorded
\* iff the new action types are not a subset of the old ones.
C7_PrivilegeNarrowing ==
    \A j \in Processed :
        SimplePrivilegePair(j)
        => /\ "resource_pattern_not_equal" \in AccessErrors(j)
                  <=> OldPrivilege(j).resource_pattern
                          # NewPrivilege(j).resource_pattern
           /\ "new_action_types_not_subset" \in AccessErrors(j)
                  <=> \E a \in Range(NewPrivilege(j).action_type) :
                          a \notin Range(OldPrivilege(j).action_type)
           /\ AccessErrors(j) \subseteq
                  {"resource_pattern_not_equal", "new_action_types_not_subset"}

\* old {a, b, c} and new {a, b, d} on the same resource: the action-type
\* error and no other
C7_Witness ==
    /\ pc = "old_commands" /\ i = 2
    /\ SimplePrivilegePair(1)
    /\ OldPrivilege(1) = Privilege("R", <<"a", "b", "c">>)
    /\ NewPrivilege(1) = Privilege("R", <<"a", "b", "d">>)
    /\ AccessErrors(1) = {"new_action_types_not_subset"}

NamespaceErrors(j) ==
    ErrorsOf({"new_namespace_incompatible"}, old_idl[j].command_name)

\* C8: old "ignored" records a namespace-incompatible error iff new is not
\* "ignored"; old "concatenate_with_db_or_uuid" iff new is neither
\* "ignored" nor "concatenate_with_db_or_uuid"; old "concatenate_with_db"
\* iff new is "type".
C8_NamespaceTransitions ==
    \A j \in Processed :
        /\ old_idl[j].namespace = COMMAND_NAMESPACE_IGNORED
               => (NamespaceErrors(j) # {}
                   <=> new_idl[j].namespace # COMMAND_NAMESPACE_IGNORED)
        /\ old_idl[j].namespace = COMMAND_NAMESPACE_CONCATENATE_WITH_DB_OR_UUID
               => (NamespaceErrors(j) # {}
                   <=> new_idl[j].namespace
                           \in {COMMAND_NAMESPACE_CONCATENATE_WITH_DB,
                                COMMAND_NAMESPACE_TYPE})
        /\ old_idl[j].namespace = COMMAND_NAMESPACE_CONCATENATE_WITH_DB
               => (NamespaceErrors(j) # {}
                   <=> new_idl[j].namespace = COMMAND_NAMESPACE_TYPE)

\* "concatenate_with_db_or_uuid" became "type": one error
C8_Witness ==
    /\ pc = "old_commands" /\ i = 2
    /\ old_idl[1].namespace = COMMAND_NAMESPACE_CONCATENATE_WITH_DB_OR_UUID
    /\ new_idl[1].namespace = COMMAND_NAMESPACE_TYPE
    /\ Cardinality(NamespaceErrors(1)) = 1

\* the old namespace is "type" and the new one is not
FromTypeDefined(j) ==
    /\ old_idl[j].namespace = COMMAND_NAMESPACE_TYPE
    /\ new_idl[j].namespace # COMMAND_NAMESPACE_TYPE

\* the old commands whose checks have run: to the end, or into a crash
Handled == IF pc = "crashed" THEN {i} ELSE Processed

\* C9 (as the code has it): when the old namespace is "type" and the new
\* one is not, no namespace-incompatible error is recorded iff the name of
\* the old namespace type is "namespacestring", or the new namespace is
\* "ignored", or the old namespace type does not resolve (the run then
\* stops abnormally).
C9_FromTypeDefined ==
    \A j \in Handled :
        FromTypeDefined(j)
        => /\ NamespaceErrors(j) = {}
                  <=> \/ Resolve(old_idl[j].type).name = "namespacestring"
                      \/ new_idl[j].namespace = COMMAND_NAMESPACE_IGNORED
                      \/ IsNone(Resolve(old_idl[j].type))
           /\ pc = "crashed" <=> IsNone(Resolve(old_idl[j].type))

\* a "type" namespace of type namespacestring became "concatenate_with_db":
\* no error
C9_Witness ==
    /\ pc = "old_commands" /\ i = 2
    /\ FromTypeDefined(1)
    /\ Resolve(old_idl[1].type).name = "namespacestring"
    /\ new_idl[1].namespace = COMMAND_NAMESPACE_CONCATENATE_WITH_DB
    /\ ctxt.errors = <<>>

\* C9 as stated: the transition is accepted iff the name of the old
\* namespace type is not "namespacestring" or the new namespace is "ignored".
C9_AcceptedUnlessNamespaceString ==
    \A j \in Processed :
        FromTypeDefined(j)
        => (NamespaceErrors(j) = {}
            <=> \/ Resolve(old_idl[j].type).name # "namespacestring"
                \/ new_idl[j].namespace = COMMAND_NAMESPACE_IGNORED)

\* the run stopped before the last old command was processed
Aborted == pc = "exited" /\ i <= Len(old_idl)

\* C10: a run ends in one of two ways: it runs to completion (all old
\* commands processed, errors drained), or it aborts on the fatal
\* unresolved-type condition after recording that error; no other abnormal
\* termination is reachable.
C10_TwoOutcomes ==
    /\ pc \in {"get_new_commands", "old_commands", "error_reply",
               "generic_arguments", "exited"}
    /\ Aborted
           => /\ ctxt.errors # <<>>
              /\ ctxt.errors[Len(ctxt.errors)].kind \in TypeInvalidErrorKinds
              /\ printed = ctxt.errors

\* the typed position of the j-th old command is compared with the one of
\* its new command, and one of the two types does not resolve
UnresolvedPair(j) ==
    /\ j <= Len(new_idl)
    /\ TypedPosition(old_idl[j]).infix # ""
           \/ new_idl[j].namespace = COMMAND_NAMESPACE_TYPE
    /\ TypedPosition(old_idl[j]).infix # ""
           \/ old_idl[j].namespace = COMMAND_NAMESPACE_TYPE
    /\ \/ IsNone(Resolve(TypedPosition(old_idl[j]).ref))
       \/ IsNone(Resolve(TypedPosition(new_idl[j]).ref))

\* the checks of the j-th old command have run, to their end or not
HasRun(j) ==
    /\ pc # "get_new_commands"
    /\ j < i \/ (j = i /\ pc \in {"exited", "crashed"})

\* C11: whenever the type of a compared field (or namespace) is unresolved
\* on the old or on the new side, whatever the other side is, the
\* invalid-type error is recorded last, the errors are printed, and the
\* process ends with non-zero status.
C11_FatalUnresolved ==
    \A j \in 1..Len(old_idl) :
        (UnresolvedPair(j) /\ HasRun(j))
        => /\ pc = "exited" /\ i = j /\ exit_code = 1
           /\ ctxt.errors # <<>>
           /\ ctxt.errors[Len(ctxt.errors)].kind \in TypeInvalidErrorKinds
           /\ printed = ctxt.errors

\* a command with only its fields of the given name
OnlyField(cmd, name) ==
    LET Named(x) == x.name = name
    IN  [cmd EXCEPT !.fields = SelectSeq(@, Named),
                    !.reply_type.fields = SelectSeq(@, Named)]

\* the errors of the j-th old command when only its field of the given
\* name is there, on both sides
AloneErrors(j, name) ==
    Range(check_command(NewContext, OnlyField(old_idl[j], name),
                        OnlyField(new_idl[j], name)).errors)

\* C12: in a run that does not hit the fatal unresolved-type condition,
\* every error that a field (or a command) records when it is compared
\* without its siblings is recorded when it is compared with them: an error
\* of one field or command never suppresses the checks of its siblings.
C12_SiblingsContinue ==
    \A j \in 1..Len(old_idl) :
        (HasRun(j) /\ ~Aborted)
        => \A k \in 1..j : \A name \in {"f", "g"} :
               AloneErrors(k, name) \subseteq Range(ctxt.errors)

\* C13: the run exits with non-zero status if any error was recorded, and
\* every error recorded during the run (by the command check, the
\* error-reply check and the generic-argument check) has been printed when
\* the process exits.
C13_Reporting ==
    pc = "exited"
    => /\ ctxt.errors # <<>> => exit_code = 1
       /\ Range(ctxt.errors) \subseteq Range(printed)

\* the names of the commands of a generation
NamesOf(cmds) == {cmds[k].command_name : k \in 1..Len(cmds)}

\* the commands of the stable API in the new generation that get_new_commands
\* reads under the given name
StableNamed(name) ==
    {k \in 1..Len(new_idl) :
        /\ new_idl[k].command_name = name
        /\ new_idl[k].api_version = "1"
        /\ ~new_idl[k].imported}

\* the errors a stable command can be charged with: every kind but the one
\* recorded for a command of another API version
StableErrors(name) ==
    {k \in 1..Len(ctxt.errors) :
        /\ ctxt.errors[k].cmd = name
        /\ ctxt.errors[k].kind # "command_invalid_api_version"}

\* C14 (as stated): a command of apiVersion "1" that is present only in the
\* new generation causes no error to be recorded, whatever its shape.
C14_AddedCommandAnyCount ==
    \A name \in NamesOf(new_idl) \ NamesOf(old_idl) :
        StableNamed(name) # {} => StableErrors(name) = {}

\* C14 (as the code has it): a command of apiVersion "1" that is present
\* only in the new generation, and that is the only command of apiVersion
\* "1" read under its name there, causes no error to be recorded, whatever
\* its strictness, parameters, reply fields, namespace, types and access
\* checks.
C14_AddedCommand ==
    \A name \in NamesOf(new_idl) \ NamesOf(old_idl) :
        Cardinality(StableNamed(name)) = 1 => StableErrors(name) = {}

\* the run is over, and the new generation alone has a command whose reply
\* field or parameter is of a type with "any" and no allow-list entry
C14_Witness ==
    /\ pc = "exited"
    /\ i > Len(old_idl)
    /\ \E k \in 1..Len(new_idl) :
          /\ new_idl[k].command_name \notin NamesOf(old_idl)
          /\ Cardinality(StableNamed(new_idl[k].command_name)) = 1
          /\ new_idl[k].api_version = "1"
          /\ UnregisteredAny(new_idl[k])
          /\ StableErrors(new_idl[k].command_name) = {}

\* the old commands that check_compatibility compares: apiVersion "1", not
\* imported, the first of their name, and with a command of that name read
\* from the new generation
Compared(j) ==
    /\ old_idl[j].api_version = "1"
    /\ ~old_idl[j].imported
    /\ \A k \in 1..(j - 1) :
          old_idl[k].command_name = old_idl[j].command_name
          => (old_idl[k].api_version # "1" \/ old_idl[k].imported)
    /\ StableNamed(old_idl[j].command_name) # {}

\* the command of the new generation an old command is compared with
NewOf(j) ==
    new_idl[CHOOSE k \in StableNamed(old_idl[j].command_name) :
                \A l \in StableNamed(old_idl[j].command_name) : k <= l]

\* C15: for every command present in both generations, once it is compared,
\* one command_strict_true error is recorded if old.strict is false and
\* new.strict is true, and none in the three other combinations.
C15_StrictnessMonotone ==
    \A j \in 1..Len(old_idl) :
        (HasRun(j) /\ Compared(j))
        => Cardinality(ErrorsOf({"command_strict_true"}, old_idl[j].command_name))
               = IF old_idl[j].strict = FALSE /\ NewOf(j).strict = TRUE
                 THEN 1 ELSE 0

\* the run is over; cmdA went from non-strict to strict, next to a second
\* command of that name in the new generation, and has its one error
C15_Witness ==
    /\ pc = "exited"
    /\ Len(old_idl) = 1
    /\ Compared(1)
    /\ old_idl[1].command_name = "cmdA"
    /\ Cardinality(StableNamed("cmdA")) = 2
    /\ ~old_idl[1].strict /\ NewOf(1).strict
    /\ Cardinality(ErrorsOf({"command_strict_true"}, "cmdA")) = 1

\* the old commands whose comparison has run to its end
Completed(j) == pc # "get_new_commands" /\ j < i

AccessErrorKinds ==
    {"access_check_type_not_equal", "check_not_equal", "resource_pattern_not_equal",
     "new_action_types_not_subset", "new_additional_complex_access_check",
     "new_complex_checks_not_subset", "new_complex_privileges_not_subset",
     "removed_access_check_field", "added_access_check_field"}

\* the number of errors of the given kinds recorded for the j-th old command
CountOf(kinds, j) == Cardinality(ErrorsOf(kinds, old_idl[j].command_name))

OldAccess(j) == old_idl[j].access_check

NewAccess(j) == NewOf(j).access_check

\* C16: for a command whose comparison has run to its end, access checks
\* absent on both sides record
\* no access-check error; present in the old and absent in the new
\* generation, one removed-access-check error; absent in the old and present
\* in the new generation, one added-access-check error; present on both
\* sides with different kinds (none, simple, complex), exactly one
\* kind-mismatch error and no other access-check error.
C16_AccessCheckTable ==
    \A j \in 1..Len(old_idl) :
        (Completed(j) /\ Compared(j))
        => /\ (OldAccess(j).kind = "absent" /\ NewAccess(j).kind = "absent")
              => CountOf(AccessErrorKinds, j) = 0
           /\ (OldAccess(j).kind # "absent" /\ NewAccess(j).kind = "absent")
              => /\ CountOf({"removed_access_check_field"}, j) = 1
                 /\ CountOf(AccessErrorKinds, j) = 1
           /\ (OldAccess(j).kind = "absent" /\ NewAccess(j).kind # "absent")
              => /\ CountOf({"added_access_check_field"}, j) = 1
                 /\ CountOf(AccessErrorKinds, j) = 1
           /\ (/\ OldAccess(j).kind \in {"none", "simple", "complex"}
               /\ NewAccess(j).kind \in {"none", "simple", "complex"}
               /\ OldAccess(j).kind # NewAccess(j).kind)
              => /\ CountOf({"access_check_type_not_equal"}, j) = 1
                 /\ CountOf(AccessErrorKinds, j) = 1

\* a simple check (is_x) became a complex list that holds another privilege:
\* only the kind mismatch is recorded
C16_Witness ==
    /\ pc = "exited"
    /\ Len(old_idl) = 1
    /\ Compared(1)
    /\ OldAccess(1).kind = "simple"
    /\ OldAccess(1).simple.check = "is_x"
    /\ NewAccess(1).kind = "complex"
    /\ Len(NewAccess(1).complex) = 1
    /\ NewAccess(1).complex[1].privilege # NoPrivilege
    /\ CountOf({"access_check_type_not_equal"}, 1) = 1
    /\ CountOf(AccessErrorKinds, 1) = 1

\* the check strings and the privileges among the entries of a Complex
\* access check, in the order of the entries
ChecksIn(entries) ==
    {entries[k].check : k \in {l \in 1..Len(entries) : entries[l].check # None}}

PrivilegesIn(entries) ==
    LET HasPrivilege(x) == x.privilege # NoPrivilege
        with_privilege == SelectSeq(entries, HasPrivilege)
    IN  [k \in 1..Len(with_privilege) |-> with_privilege[k].privilege]

\* the old privilege has the resource pattern of the new one and a superset
\* of its action types
Covers(old_privilege, new_privilege) ==
    /\ old_privilege.resource_pattern = new_privilege.resource_pattern
    /\ \A a \in Range(new_privilege.action_type) :
          a \in Range(old_privilege.action_type)

\* the ways of matching new privileges with old privileges that cover them,
\* no old privilege taken twice, until no new privilege left over is covered
\* by an old privilege left over
Matchings(new_privileges, old_privileges) ==
    {m \in SUBSET ((DOMAIN new_privileges) \X (DOMAIN old_privileges)) :
        /\ \A p, q \in m : (p[1] = q[1] \/ p[2] = q[2]) => p = q
        /\ \A p \in m : Covers(old_privileges[p[2]], new_privileges[p[1]])
        /\ \A a \in DOMAIN new_privileges, b \in DOMAIN old_privileges :
              ((\A p \in m : p[1] # a) /\ (\A p \in m : p[2] # b))
              => ~Covers(old_privileges[b], new_privileges[a])}

\* C17: for a command whose comparison has run to its end, with Complex
\* access checks on both sides:
\* more new entries than old entries record one additional-check error and
\* nothing else; otherwise one checks-not-subset error is recorded iff a
\* new check string is not among the old ones, and, for the privileges, one
\* error if there are more new than old ones, and otherwise one error for
\* every new privilege left unmatched by a matching in which each old
\* privilege covers at most one new privilege.
C17_ComplexChecks ==
    \A j \in 1..Len(old_idl) :
        (/\ Completed(j) /\ Compared(j)
         /\ OldAccess(j).kind = "complex" /\ NewAccess(j).kind = "complex")
        => LET old_entries == OldAccess(j).complex
               new_entries == NewAccess(j).complex
               old_privileges == PrivilegesIn(old_entries)
               new_privileges == PrivilegesIn(new_entries)
               privilege_errors == CountOf({"new_complex_privileges_not_subset"}, j)
               check_errors == CountOf({"new_complex_checks_not_subset"}, j)
           IN  IF Len(new_entries) > Len(old_entries)
               THEN /\ CountOf({"new_additional_complex_access_check"}, j) = 1
                    /\ CountOf(AccessErrorKinds, j) = 1
               ELSE /\ CountOf(AccessErrorKinds, j) = check_errors + privilege_errors
                    /\ check_errors
                           = IF ChecksIn(new_entries) \subseteq ChecksIn(old_entries)
                             THEN 0 ELSE 1
                    /\ IF Len(new_privileges) > Len(old_privileges)
                       THEN privilege_errors = 1
                       ELSE \E m \in Matchings(new_privileges, old_privileges) :
                               privilege_errors = Len(new_privileges) - Cardinality(m)

\* two new privileges claim the one old privilege that covers them: the
\* first consumes it and the second is left unmatched
C17_Witness ==
    /\ pc = "exited"
    /\ Len(old_idl) = 1
    /\ Compared(1)
    /\ OldAccess(1).kind = "complex" /\ NewAccess(1).kind = "complex"
    /\ Len(PrivilegesIn(OldAccess(1).complex)) = 2
    /\ Len(PrivilegesIn(NewAccess(1).complex)) = 2
    /\ NewAccess(1).complex[1] = NewAccess(1).complex[2]
    /\ Covers(OldAccess(1).complex[1].privilege, NewAccess(1).complex[1].privilege)
    /\ ~Covers(OldAccess(1).complex[2].privilege, NewAccess(1).complex[1].privilege)
    /\ CountOf({"new_complex_privileges_not_subset"}, 1) = 1
    /\ CountOf(AccessErrorKinds, 1) = 1

\* the types at the typed position of the j-th old command and of the
\* command it is compared with
OldTyped(j) == Resolve(TypedPosition(old_idl[j]).ref)

NewTyped(j) == Resolve(TypedPosition(NewOf(j)).ref)

\* the j-th old command is compared at a position where both types are
\* scalar and exactly one of them serializes as "any"
AnyOnOneSide(j) ==
    /\ Compared(j)
    /\ TypedPosition(old_idl[j]).infix = TypedPosition(NewOf(j)).infix
    /\ OldTyped(j).kind = "Type" /\ NewTyped(j).kind = "Type"
    /\ ("any" \in OldTyped(j).bson_serialization_type)
           # ("any" \in NewTyped(j).bson_serialization_type)

\* the kind of the one error of a pair with "any" on one side
AnyGateKind(j) ==
    IF TypedPosition(old_idl[j]).infix = "-reply-"
    THEN IF "any" \in OldTyped(j).bson_serialization_type
         THEN "old_reply_field_bson_any" ELSE "new_reply_field_bson_any"
    ELSE IF "any" \in OldTyped(j).bson_serialization_type
         THEN "old_command_or_param_type_bson_any"
         ELSE "new_command_or_param_type_bson_any"

\* C18: once the comparison of a command has run to its end, for a scalar
\* old and a scalar new type of a parameter,
\* reply field or command type, whether the old field is unstable or not, if
\* exactly one of the two serializes as "any" then one error is recorded for
\* the pair (any removed if the old type has it, any introduced if the new
\* type has it) and no other error.
C18_AnyGate ==
    \A j \in 1..Len(old_idl) :
        (Completed(j) /\ AnyOnOneSide(j))
        => /\ CountOf({AnyGateKind(j)}, j) = 1
           /\ \A k \in 1..Len(ctxt.errors) :
                 ctxt.errors[k].cmd = old_idl[j].command_name
                 => ctxt.errors[k].kind = AnyGateKind(j)

\* an unstable reply field of cmdB went from a type with "any" to int:
\* the one error is the removal of "any", not the missing allow-list entry
C18_Witness ==
    /\ pc = "exited"
    /\ Len(old_idl) = 1
    /\ AnyOnOneSide(1)
    /\ old_idl[1].command_name = "cmdB"
    /\ TypedPosition(old_idl[1]).infix = "-reply-"
    /\ UnstableF(old_idl[1])
    /\ "any" \in OldTyped(1).bson_serialization_type
    /\ NewTyped(1).name = "int"
    /\ Len(ctxt.errors) = 1
    /\ ctxt.errors[1].kind = "old_reply_field_bson_any"

\* the names of the fields of a field list
FieldNames(fields) == {fields[k].name : k \in 1..Len(fields)}

\* the parameters (Input) or reply fields (Output) of a command
FieldsOf(cmd, input) == IF input THEN cmd.fields ELSE cmd.reply_type.fields

\* the errors recorded for the field of a command that has the given name
ErrorsFor(cmd, name) ==
    {k \in 1..Len(ctxt.errors) :
        ctxt.errors[k].cmd = cmd /\ ctxt.errors[k].field = name}

AddedRequiredKinds == {"new_param_or_command_type_field_added_required"}

\* the type of the field is a scalar or variant type that serializes as
\* "any", and the registry has no entry for the field
AnyUnregistered(cmd, infix, field) ==
    /\ Resolve(field.type).kind \in {"Type", "VariantType"}
    /\ "any" \in Resolve(field.type).bson_serialization_type
    /\ <<cmd, infix, field.name>> \notin ALLOW_ANY_TYPE_LIST

\* C19: for a command whose comparison has run to its end and a field of
\* its new field list that the
\* old field list lacks: as a parameter, one added-required error is
\* recorded for it iff it is neither optional nor unstable; as a reply field,
\* no added-required error is recorded, and a required stable one has no
\* error at all unless its type carries "any" without a registry entry.
C19_NewlyAdded ==
    \A j \in 1..Len(old_idl) :
        (Completed(j) /\ Compared(j))
        => \A input \in BOOLEAN :
              \A k \in 1..Len(FieldsOf(NewOf(j), input)) :
                 LET new_field == FieldsOf(NewOf(j), input)[k]
                     cmd == old_idl[j].command_name
                     added == {e \in ErrorsFor(cmd, new_field.name) :
                                  ctxt.errors[e].kind \in AddedRequiredKinds}
                 IN  new_field.name \notin FieldNames(FieldsOf(old_idl[j], input))
                     => IF input
                        THEN Cardinality(added)
                                 = IF ~new_field.optional /\ ~new_field.unstable
                                   THEN 1 ELSE 0
                        ELSE /\ added = {}
                             /\ (~new_field.optional /\ ~new_field.unstable)
                                => (\/ ErrorsFor(cmd, new_field.name) = {}
                                    \/ AnyUnregistered(cmd, "-reply-", new_field))

\* cmdB gained the required stable parameter g of a type with "any" next to
\* its parameter h: g has its added-required error
C19_Witness ==
    /\ pc = "exited"
    /\ Len(old_idl) = 1
    /\ Completed(1) /\ Compared(1)
    /\ old_idl[1].command_name = "cmdB"
    /\ FieldNames(old_idl[1].fields) = {"h"}
    /\ FieldNames(NewOf(1).fields) = {"g", "h"}
    /\ \E k \in 1..2 :
          /\ NewOf(1).fields[k].name = "g"
          /\ ~NewOf(1).fields[k].optional /\ ~NewOf(1).fields[k].unstable
          /\ AnyUnregistered("cmdB", "-param-", NewOf(1).fields[k])
    /\ \E e \in ErrorsFor("cmdB", "g") : ctxt.errors[e].kind \in AddedRequiredKinds

\* the field named f in the old and in the new field list of the j-th old
\* command, when both lists have one
SharedF(j, input) ==
    /\ Compared(j)
    /\ "f" \in FieldNames(FieldsOf(old_idl[j], input))
    /\ "f" \in FieldNames(FieldsOf(NewOf(j), input))

OldShared(j, input) ==
    LET fields == FieldsOf(old_idl[j], input)
    IN  fields[CHOOSE k \in 1..Len(fields) : fields[k].name = "f"]

NewShared(j, input) ==
    LET fields == FieldsOf(NewOf(j), input)
    IN  fields[CHOOSE k \in 1..Len(fields) : fields[k].name = "f"]

\* C20 (as stated): for every field present in both generations, as a
\* parameter and as a reply field, an error is recorded for it once its
\* command is compared if the old field is optional and the new one is not.
C20_BothDirections ==
    \A j \in 1..Len(old_idl) :
        \A input \in BOOLEAN :
            (/\ Completed(j) /\ SharedF(j, input)
             /\ OldShared(j, input).optional /\ ~NewShared(j, input).optional)
            => ErrorsFor(old_idl[j].command_name, "f") # {}

\* C20 (as the code has it): for a field present in both generations, once
\* the comparison of its command has run to its end: a parameter has one
\* field-required error iff the old field is optional and the new one is
\* not, whatever the stability flags; a reply field has no optionality error
\* for that transition, and no error at all if nothing else changed; the
\* reply field has one optionality error iff the old field is stable and
\* required and the new one is optional.
C20_OptionalityTightening ==
    \A j \in 1..Len(old_idl) :
        /\ (Completed(j) /\ SharedF(j, TRUE))
           => Cardinality({e \in ErrorsFor(old_idl[j].command_name, "f") :
                  ctxt.errors[e].kind = "new_param_or_command_type_field_required"})
                  = IF OldShared(j, TRUE).optional /\ ~NewShared(j, TRUE).optional
                    THEN 1 ELSE 0
        /\ (Completed(j) /\ SharedF(j, FALSE))
           => /\ Cardinality({e \in ErrorsFor(old_idl[j].command_name, "f") :
                     ctxt.errors[e].kind = "new_reply_field_optional"})
                     = IF /\ ~OldShared(j, FALSE).unstable
                          /\ ~OldShared(j, FALSE).optional
                          /\ NewShared(j, FALSE).optional
                       THEN 1 ELSE 0
              /\ (/\ OldShared(j, FALSE).optional /\ ~NewShared(j, FALSE).optional
                  /\ [OldShared(j, FALSE) EXCEPT !.optional = FALSE] = NewShared(j, FALSE))
                 => ErrorsFor(old_idl[j].command_name, "f") = {}

\* the unstable optional parameter f became required and stayed unstable:
\* the one error recorded is the field-required error
C20_Witness ==
    /\ pc = "exited"
    /\ Len(old_idl) = 1
    /\ Completed(1) /\ SharedF(1, TRUE)
    /\ OldShared(1, TRUE).optional /\ ~NewShared(1, TRUE).optional
    /\ OldShared(1, TRUE).unstable /\ NewShared(1, TRUE).unstable
    /\ Len(ctxt.errors) = 1
    /\ ctxt.errors[1].kind = "new_param_or_command_type_field_required"

ValidatorErrorKinds ==
    {"reply_field_contains_validator", "reply_field_validators_not_equal",
     "command_or_param_type_contains_validator",
     "command_or_param_type_validators_not_equal"}

\* the validator errors recorded for the field f of the j-th old command
ValidatorErrors(j) ==
    {e \in ErrorsFor(old_idl[j].command_name, "f") :
        ctxt.errors[e].kind \in ValidatorErrorKinds}

\* C21 (as stated): for every field present in both generations whose old
\* field is stable, as a parameter and as a reply field, a validator error is
\* recorded whenever the new validator differs from the old one (changed,
\* newly introduced or removed), and none when the old field is unstable.
C21_AnyValidatorDifference ==
    \A j \in 1..Len(old_idl) :
        \A input \in BOOLEAN :
            (Completed(j) /\ SharedF(j, input))
            => IF /\ ~OldShared(j, input).unstable
                  /\ NewShared(j, input).validator # OldShared(j, input).validator
               THEN ValidatorErrors(j) # {}
               ELSE ValidatorErrors(j) = {}

\* C21 (as the code has it): for every field present in both generations,
\* as a parameter and as a reply field, once the comparison of its command
\* has run to its end, one validator error is recorded iff the old field is
\* stable and the new field has a validator that the old field lacks or
\* that differs from the old one; a removed validator and an unstable old
\* field record no validator error.
C21_ValidatorRule ==
    \A j \in 1..Len(old_idl) :
        \A input \in BOOLEAN :
            (Completed(j) /\ SharedF(j, input))
            => Cardinality(ValidatorErrors(j))
                   = IF /\ ~OldShared(j, input).unstable
                        /\ NewShared(j, input).validator # None
                        /\ NewShared(j, input).validator # OldShared(j, input).validator
                     THEN 1 ELSE 0

\* the stable reply field f had no validator and has one now: the only
\* error recorded is the validator error
C21_Witness ==
    /\ pc = "exited"
    /\ Len(old_idl) = 1
    /\ Completed(1) /\ SharedF(1, FALSE)
    /\ ~OldShared(1, FALSE).unstable
    /\ OldShared(1, FALSE).validator = None
    /\ NewShared(1, FALSE).validator = "v1"
    /\ Len(ctxt.errors) = 1
    /\ ctxt.errors[1].kind = "reply_field_contains_validator"

FieldMissingKinds ==
    {"new_reply_field_missing", "new_param_or_command_type_field_missing"}

\* the struct whose fields are reconciled when a field is of this type: the
\* type itself, or the struct arm of a variant; <<>> if there is none
StructIn(type) ==
    IF type.kind = "Struct" THEN <<type>>
    ELSE IF type.kind = "VariantType" /\ type.variant_struct_type # None
    THEN <<Resolve(type.variant_struct_type)>>
    ELSE <<>>

\* the pairs of an old and a new field list that the comparison of the j-th
\* old command reconciles: the top-level lists and, under a field f typed
\* with a struct or with a variant that has a struct arm on both sides, the
\* lists of the two structs
FieldListPairs(j, input) ==
    {<<FieldsOf(old_idl[j], input), FieldsOf(NewOf(j), input)>>}
    \cup
    IF /\ SharedF(j, input)
       /\ StructIn(Resolve(OldShared(j, input).type)) # <<>>
       /\ StructIn(Resolve(NewShared(j, input).type)) # <<>>
       /\ Resolve(OldShared(j, input).type).kind = Resolve(NewShared(j, input).type).kind
    THEN {<<StructIn(Resolve(OldShared(j, input).type))[1].fields,
            StructIn(Resolve(NewShared(j, input).type))[1].fields>>}
    ELSE {}

\* the field lists reconciled for the command type: the lists of the two
\* structs, when both namespaces are "type" and both types are structs or
\* variants with a struct arm
CommandTypePairs(j) ==
    IF /\ old_idl[j].namespace = COMMAND_NAMESPACE_TYPE
       /\ NewOf(j).namespace = COMMAND_NAMESPACE_TYPE
       /\ StructIn(Resolve(old_idl[j].type)) # <<>>
       /\ StructIn(Resolve(NewOf(j).type)) # <<>>
       /\ Resolve(old_idl[j].type).kind = Resolve(NewOf(j).type).kind
    THEN {<<StructIn(Resolve(old_idl[j].type))[1].fields,
            StructIn(Resolve(NewOf(j).type))[1].fields>>}
    ELSE {}

\* the pairs of lists in which a stable old field of the given name has no
\* field of that name in the new list
StableRemovals(pairs, name) ==
    {lists \in pairs :
        /\ name \notin FieldNames(lists[2])
        /\ \E k \in 1..Len(lists[1]) :
              lists[1][k].name = name /\ ~lists[1][k].unstable}

\* C22: once the comparison of a command has run to its end, for every old
\* field without a field of its name in the new field list, among the
\* parameters, the reply fields, the fields of a nested struct, of a
\* variant's struct arm and of the command type, one field-missing error is
\* recorded if the old field is stable and none if it is unstable.
C22_FieldRemoval ==
    \A j \in 1..Len(old_idl) :
        (Completed(j) /\ Compared(j))
        => \A name \in {"f", "g", "h", "k"} :
              Cardinality({e \in ErrorsFor(old_idl[j].command_name, name) :
                              ctxt.errors[e].kind \in FieldMissingKinds})
                  = Cardinality(StableRemovals(FieldListPairs(j, TRUE), name))
                        + Cardinality(StableRemovals(FieldListPairs(j, FALSE), name))
                        + Cardinality(StableRemovals(CommandTypePairs(j), name))

\* the parameter f is typed with a variant whose struct arm lost its stable
\* field h, and the stable parameter k is gone: one error each
C22_Witness ==
    /\ pc = "exited"
    /\ Len(old_idl) = 1
    /\ Completed(1) /\ SharedF(1, TRUE)
    /\ Resolve(OldShared(1, TRUE).type).kind = "VariantType"
    /\ Cardinality(StableRemovals(FieldListPairs(1, TRUE), "h")) = 1
    /\ Cardinality(StableRemovals(FieldListPairs(1, TRUE), "k")) = 1
    /\ Len(ctxt.errors) = 2
    /\ \A e \in 1..2 : ctxt.errors[e].kind \in FieldMissingKinds

\* exactly one of the two resolved types at the typed position of the j-th
\* old command is an array
OneIsArray(j) ==
    /\ Compared(j)
    /\ TypedPosition(old_idl[j]).infix = TypedPosition(NewOf(j)).infix
    /\ ~IsNone(OldTyped(j)) /\ ~IsNone(NewTyped(j))
    /\ (OldTyped(j).kind = "ArrayType") # (NewTyped(j).kind = "ArrayType")

\* C23: when exactly one of the old and the new type of a field is an array,
\* then, once the field has been compared, a stable old field has the
\* array-ness error as its only error, and an unstable old field has no
\* error and the run goes on to the remaining fields and commands.
C23_ArrayNessChange ==
    \A j \in 1..Len(old_idl) :
        (HasRun(j) /\ OneIsArray(j))
        => /\ Completed(j)
           /\ IF UnstableF(old_idl[j])
              THEN \A e \in 1..Len(ctxt.errors) :
                      ctxt.errors[e].cmd # old_idl[j].command_name
              ELSE /\ CountOf({"type_not_array"}, j) = 1
                   /\ \A e \in 1..Len(ctxt.errors) :
                         ctxt.errors[e].cmd = old_idl[j].command_name
                         => ctxt.errors[e].kind = "type_not_array"

\* both types at the typed position of the j-th old command are arrays
BothArrays(j) ==
    /\ Compared(j)
    /\ TypedPosition(old_idl[j]).infix = TypedPosition(NewOf(j)).infix
    /\ OldTyped(j).kind = "ArrayType" /\ NewTyped(j).kind = "ArrayType"

\* the command with the array at its typed position replaced by the element
\* type of the array
ElementTyped(cmd) ==
    LET element == Resolve(TypedPosition(cmd).ref).element_type
    IN  IF cmd.fields # <<>> THEN [cmd EXCEPT !.fields[1].type = element]
        ELSE IF cmd.reply_type.fields # <<>>
        THEN [cmd EXCEPT !.reply_type.fields[1].type = element]
        ELSE [cmd EXCEPT !.type = element]

\* C24: when both the old and the new type are arrays, the whole type
\* comparison (array check included) is repeated on the element types: the
\* errors recorded for the pair are the errors that the comparison of the two
\* element types records, at any depth, an array-ness mismatch between the
\* element types included.
C24_NestedArrays ==
    \A j \in Handled :
        BothArrays(j)
        => LET elements == check_command(NewContext, ElementTyped(old_idl[j]),
                                         ElementTyped(NewOf(j)))
           IN  /\ ctxt.errors = elements.errors
               /\ (pc = "crashed") = (elements.st = "crash")

\* the kinds of a sequence of errors, in order
KindsOf(errors) == [e \in 1..Len(errors) |-> errors[e].kind]

\* the command with the type at its typed position replaced
WithType(cmd, ref) ==
    IF cmd.fields # <<>> THEN [cmd EXCEPT !.fields[1].type = ref]
    ELSE IF cmd.reply_type.fields # <<>>
    THEN [cmd EXCEPT !.reply_type.fields[1].type = ref]
    ELSE [cmd EXCEPT !.type = ref]

\* the kinds of the errors of comparing the j-th old command and its new
\* command with the two given types at their typed position
KindsWith(j, old_ref, new_ref) ==
    KindsOf(check_command(NewContext, WithType(old_idl[j], old_ref),
                          WithType(NewOf(j), new_ref)).errors)

\* the arms of a variant that have the name of the given arm
SameNamed(arms, ref) ==
    {k \in 1..Len(arms) : Resolve(arms[k]).name = Resolve(ref).name}

\* <<kind>> if the old field of the j-th command is stable, else <<>>
IfStable(j, kind) == IF UnstableF(old_idl[j]) THEN <<>> ELSE <<kind>>

\* the types at the typed position are resolved, no arrays, and carry no
\* "any"; the position is a parameter or the command type
VariantInput(j) ==
    /\ Compared(j)
    /\ TypedPosition(old_idl[j]).infix = TypedPosition(NewOf(j)).infix
    /\ TypedPosition(old_idl[j]).infix # "-reply-"
    /\ OldTyped(j).kind = "VariantType"
    /\ NewTyped(j).kind \notin {"None", "ArrayType"}
    /\ "any" \notin OldTyped(j).bson_serialization_type
    /\ "any" \notin NewTyped(j).bson_serialization_type

\* the error kinds of the old arms from the k-th on: a matched arm gives the
\* errors of comparing it with the first new arm of its name, an unmatched
\* one the not-superset error of a stable field
RECURSIVE InputArmKinds(_, _)
InputArmKinds(j, k) ==
    IF k > Len(OldTyped(j).variant_types) THEN <<>>
    ELSE LET old_arm == OldTyped(j).variant_types[k]
             matches == SameNamed(NewTyped(j).variant_types, old_arm)
             first == CHOOSE m \in matches : \A n \in matches : m <= n
         IN  (IF matches = {}
              THEN IfStable(j, "new_command_or_param_variant_type_not_superset")
              ELSE KindsWith(j, old_arm, NewTyped(j).variant_types[first]))
             \o InputArmKinds(j, k + 1)

\* the error kinds of the struct arms
InputStructArmKinds(j) ==
    IF OldTyped(j).variant_struct_type = None THEN <<>>
    ELSE IF NewTyped(j).variant_struct_type = None
    THEN IfStable(j, "new_command_or_param_variant_type_not_superset")
    ELSE KindsWith(j, OldTyped(j).variant_struct_type,
                   NewTyped(j).variant_struct_type)

\* C25: for a parameter or command type whose old type is a variant (no
\* "any" and no array on either side, which are decided before the variant
\* rule), once its command has been compared: against a new variant, the errors are, arm
\* by arm, those of comparing each old arm with the new arm of its name, or
\* one not-superset error for an old arm without one if the old field is
\* stable, followed by the errors of reconciling the fields of the two struct
\* arms, or one not-superset error if only the old variant has a struct arm
\* and the old field is stable; against a new type that is no variant, one
\* error iff the old field is stable.
C25_VariantInput ==
    \A j \in Handled :
        VariantInput(j)
        => KindsOf(ctxt.errors)
               = IF NewTyped(j).kind = "VariantType"
                 THEN InputArmKinds(j, 1) \o InputStructArmKinds(j)
                 ELSE IF NewTyped(j).kind = "Type"
                 THEN IfStable(j, "new_command_or_param_type_not_variant_type")
                 ELSE IfStable(j, "new_command_or_param_type_enum_or_struct")

\* the stable parameter f went from a variant of int (as int or long) and
\* string to a variant of int: the string arm is reported missing and the int
\* arm is reported for its narrower serialization
C25_Witness ==
    /\ pc = "old_commands"
    /\ 1 \in Handled
    /\ VariantInput(1)
    /\ TypedPosition(old_idl[1]).infix = "-param-"
    /\ ~UnstableF(old_idl[1])
    /\ Len(OldTyped(1).variant_types) = 2
    /\ Len(NewTyped(1).variant_types) = 1
    /\ KindsOf(ctxt.errors) = <<"command_or_param_type_not_superset",
                                "new_command_or_param_variant_type_not_superset">>

\* the types at the typed position, a reply field, are resolved, no arrays,
\* and carry no "any"
VariantOutput(j) ==
    /\ Compared(j)
    /\ TypedPosition(old_idl[j]).infix = "-reply-"
    /\ TypedPosition(NewOf(j)).infix = "-reply-"
    /\ OldTyped(j).kind \in {"Type", "VariantType"}
    /\ NewTyped(j).kind \in {"Type", "VariantType"}
    /\ "VariantType" \in {OldTyped(j).kind, NewTyped(j).kind}
    /\ "any" \notin OldTyped(j).bson_serialization_type
    /\ "any" \notin NewTyped(j).bson_serialization_type

\* the arms of the new type as the old variant is compared with them: the
\* arms of a variant, or the type itself
NewArms(j) ==
    IF NewTyped(j).kind = "VariantType" THEN NewTyped(j).variant_types
    ELSE <<TypedPosition(NewOf(j)).ref>>

\* the error kinds of the new arms from the k-th on: a matched arm gives the
\* errors of comparing the first old arm of its name with it, an unmatched
\* one the not-subset error of a stable field
RECURSIVE OutputArmKinds(_, _)
OutputArmKinds(j, k) ==
    IF k > Len(NewArms(j)) THEN <<>>
    ELSE LET new_arm == NewArms(j)[k]
             matches == SameNamed(OldTyped(j).variant_types, new_arm)
             first == CHOOSE m \in matches : \A n \in matches : m <= n
         IN  (IF matches = {}
              THEN IfStable(j, "new_reply_field_variant_type_not_subset")
              ELSE KindsWith(j, OldTyped(j).variant_types[first], new_arm))
             \o OutputArmKinds(j, k + 1)

\* the error kinds of the struct arms
OutputStructArmKinds(j) ==
    IF NewTyped(j).kind # "VariantType" \/ NewTyped(j).variant_struct_type = None
    THEN <<>>
    ELSE IF OldTyped(j).variant_struct_type = None
    THEN IfStable(j, "new_reply_field_variant_type_not_subset")
    ELSE KindsWith(j, OldTyped(j).variant_struct_type,
                   NewTyped(j).variant_struct_type)

\* C26: for a reply field with a variant on a side (no "any" and no array on
\* either side), once its command has been compared, the run has not
\* stopped abnormally and: for an old variant, the errors are, arm by arm,
\* those of comparing each new arm with the old arm of its name, or one
\* not-subset error for a new arm without one if the old field is stable,
\* followed by the errors of reconciling the fields of the two struct arms, or,
\* if only the new variant has a struct arm, by one not-subset error if the
\* old field is stable and by nothing if it is unstable; for an old scalar
\* and a new variant, one error iff the old field is stable.
C26_VariantOutput ==
    \A j \in Handled :
        VariantOutput(j)
        => /\ pc # "crashed"
           /\ KindsOf(ctxt.errors)
                  = IF OldTyped(j).kind = "VariantType"
                    THEN OutputArmKinds(j, 1) \o OutputStructArmKinds(j)
                    ELSE IfStable(j, "new_reply_field_variant_type")

\* both types at the typed position of the j-th old command are scalar or
\* variant types that serialize as "any"
AnyOnBothSides(j) ==
    /\ Compared(j)
    /\ TypedPosition(old_idl[j]).infix = TypedPosition(NewOf(j)).infix
    /\ OldTyped(j).kind \in {"Type", "VariantType"}
    /\ NewTyped(j).kind \in {"Type", "VariantType"}
    /\ "any" \in OldTyped(j).bson_serialization_type
    /\ "any" \in NewTyped(j).bson_serialization_type

\* the registry has the key of the typed position of the j-th old command
Registered27(j) ==
    (IF TypedPosition(old_idl[j]).infix = ""
     THEN <<old_idl[j].command_name>>
     ELSE <<old_idl[j].command_name, TypedPosition(old_idl[j]).infix,
            TypedPosition(old_idl[j]).name>>) \in ALLOW_ANY_TYPE_LIST

SerializerErrorKinds ==
    {"reply_field_serializer_not_equal", "command_or_param_serializer_not_equal"}

DeserializerErrorKinds ==
    {"reply_field_deserializer_not_equal", "command_or_param_deserializer_not_equal"}

NotAllowedErrorKinds ==
    {"reply_field_bson_any_not_allowed", "command_or_param_type_bson_any_not_allowed"}

\* 1 if the condition holds, else 0
OneIf(condition) == IF condition THEN 1 ELSE 0

\* C27 (as stated): for a field whose old and new types both carry "any",
\* once its command is compared, a cpp_type error is recorded iff the two
\* cpp_types differ, whether the key of the field is registered or not and
\* whether the old field is unstable or not; a serializer (deserializer)
\* error is recorded iff the serializers (deserializers) differ and the old
\* field is stable.
C27_IdentityWhateverRegistry ==
    \A j \in 1..Len(old_idl) :
        (Completed(j) /\ AnyOnBothSides(j))
        => /\ CountOf(CppTypeErrorKinds, j)
                  = OneIf(OldTyped(j).cpp_type # NewTyped(j).cpp_type)
           /\ CountOf(SerializerErrorKinds, j)
                  = OneIf(/\ ~UnstableF(old_idl[j])
                          /\ OldTyped(j).serializer # NewTyped(j).serializer)
           /\ CountOf(DeserializerErrorKinds, j)
                  = OneIf(/\ ~UnstableF(old_idl[j])
                          /\ OldTyped(j).deserializer # NewTyped(j).deserializer)

\* C27 (as the code has it): for a field whose old and new types both carry
\* "any", once its command is compared: if the key of the field is not
\* registered, the any-not-allowed error is the only error; if it is
\* registered, a cpp_type error is recorded iff the cpp_types differ, whether
\* the old field is unstable or not, and a serializer (deserializer) error
\* iff the serializers (deserializers) differ and the old field is stable.
C27_IdentityChecks ==
    \A j \in 1..Len(old_idl) :
        (Completed(j) /\ AnyOnBothSides(j))
        => IF Registered27(j)
           THEN /\ CountOf(NotAllowedErrorKinds, j) = 0
                /\ CountOf(CppTypeErrorKinds, j)
                       = OneIf(OldTyped(j).cpp_type # NewTyped(j).cpp_type)
                /\ CountOf(SerializerErrorKinds, j)
                       = OneIf(/\ ~UnstableF(old_idl[j])
                               /\ OldTyped(j).serializer # NewTyped(j).serializer)
                /\ CountOf(DeserializerErrorKinds, j)
                       = OneIf(/\ ~UnstableF(old_idl[j])
                               /\ OldTyped(j).deserializer # NewTyped(j).deserializer)
           ELSE /\ CountOf(NotAllowedErrorKinds, j) = 1
                /\ \A e \in 1..Len(ctxt.errors) :
                      ctxt.errors[e].cmd = old_idl[j].command_name
                      => ctxt.errors[e].kind \in NotAllowedErrorKinds

\* the registered unstable reply field f of cmdA changed its cpp_type, its
\* serializer staying: the cpp_type error is the only error
C27_Witness ==
    /\ pc = "exited"
    /\ Len(old_idl) = 1
    /\ Completed(1) /\ AnyOnBothSides(1)
    /\ Registered27(1)
    /\ TypedPosition(old_idl[1]).infix = "-reply-"
    /\ UnstableF(old_idl[1])
    /\ OldTyped(1).kind = "Type" /\ NewTyped(1).kind = "Type"
    /\ OldTyped(1).cpp_type # NewTyped(1).cpp_type
    /\ KindsOf(ctxt.errors) = <<"reply_field_cpp_type_not_equal">>

RemovedArguments == old_gen_args.arguments \ new_gen_args.arguments

RemovedReplyFields == old_gen_args.reply_fields \ new_gen_args.reply_fields

\* the generic-argument check can record the removed names in this order
CanReport(names) ==
    ENABLED (/\ CheckGenericArguments
             /\ [k \in DOMAIN ctxt'.errors |-> ctxt'.errors[k].field] = names)

\* C29: the generic-argument check reports the removed names in a
\* reproducible order: when the check is about to run, there is one sequence
\* of removed names only that it can record, so that two runs on the same
\* inputs record the same errors in the same order.
C29_ReproducibleOrder ==
    pc = "generic_arguments"
    => \A a, b \in Orders(RemovedArguments) :
           \A f, g \in Orders(RemovedReplyFields) :
               (CanReport(a \o f) /\ CanReport(b \o g)) => (a = b /\ f = g)

\* every new privilege can be assigned an old privilege of its own that
\* covers it
PerfectlyMatched(new_privileges, old_privileges) ==
    \E m \in Matchings(new_privileges, old_privileges) :
        Cardinality(m) = Len(new_privileges)

\* C30: for a command whose comparison has run to its end, with Complex
\* access checks on both sides and no more new entries than old entries: if
\* every new privilege can be assigned a distinct old privilege with the
\* same resource pattern and a superset of its action types, no privilege
\* error is recorded.
C30_MatchingComplete ==
    \A j \in 1..Len(old_idl) :
        (/\ Completed(j) /\ Compared(j)
         /\ OldAccess(j).kind = "complex" /\ NewAccess(j).kind = "complex"
         /\ Len(NewAccess(j).complex) <= Len(OldAccess(j).complex)
         /\ PerfectlyMatched(PrivilegesIn(NewAccess(j).complex),
                             PrivilegesIn(OldAccess(j).complex)))
        => CountOf({"new_complex_privileges_not_subset"}, j) = 0
====
